---- MODULE Spec2Model ----
(***************************************************************************)
(* Model of the NFT sales bot: the webhook path of bot.py (grace-window     *)
(* buffering, grouped processing, de-duplication, posting to the channel)  *)
(* and the price resolver of sales_fetcher.py.                              *)
(***************************************************************************)
EXTENDS Integers, Sequences, FiniteSets, TLC

(***************************************************************************)
(* Bounds of the model.                                                     *)
(***************************************************************************)
\* number of webhook events for which a processing task is created
MaxTasks == 2

(***************************************************************************)
(* Program constants.                                                       *)
(***************************************************************************)
\* asyncio.sleep(2) of process_webhook_sale_with_timeout
GraceWindow == 2

Tasks == 1..MaxTasks

\* Python's None
None == <<"None">>

(***************************************************************************)
(* Transaction hashes are hex strings; only their letter case matters to   *)
(* the program.  <<n, "lower">> is the all-lowercase spelling of hash n,   *)
(* <<n, "mixed">> a spelling of the same hash with upper-case digits.      *)
(***************************************************************************)
TxHashes == {<<1, "lower">>, <<1, "mixed">>, <<2, "lower">>}

\* str.lower() on a transaction hash
Lower(h) == <<h[1], "lower">>

LowerHashes == {Lower(h) : h \in TxHashes}

ZERO_ADDRESS == "0x0000000000000000000000000000000000000000"
NFT_CONTRACT_ADDRESS == "0xnft"

(***************************************************************************)
(* Token identifiers as they appear in an event: a hex string <<"hex",n>>, *)
(* a decimal string <<"dec",n>>, a JSON number <<"int",n>>, a string that   *)
(* starts with 0x but is no hex number <<"badhex",n>>, or the empty string.*)
(***************************************************************************)
EmptyStr == <<"str", "">>

\* truthiness of a token id value (None and "" are falsy)
Truthy(tok) == tok # None /\ tok # EmptyStr

\* lines 340-348: hex string -> decimal string, a number -> its string
NormalizeTokenId(tok) ==
    CASE tok[1] = "hex" -> <<"dec", tok[2]>>
      [] tok[1] = "badhex" -> tok
      [] tok[1] = "int" -> <<"dec", tok[2]>>
      [] OTHER -> tok

(***************************************************************************)
(* Webhook events.  erc721 is event.erc721Metadata.tokenId (None when the  *)
(* metadata is absent), erc1155 the list of tokenIds of                    *)
(* event.erc1155Metadata, top the top-level tokenId.                       *)
(***************************************************************************)
Ev(type, contract, from, to, e721, e1155, top) ==
    [type |-> type, contract |-> contract, fromAddress |-> from, toAddress |-> to,
     erc721 |-> e721, erc1155 |-> e1155, top |-> top]

EventShapes ==
    { Ev("NFT_ACTIVITY", NFT_CONTRACT_ADDRESS, "0xa", "0xb", <<"hex", 1>>, <<>>, EmptyStr),
      Ev("NFT_ACTIVITY", NFT_CONTRACT_ADDRESS, ZERO_ADDRESS, "0xb", <<"hex", 4>>, <<>>, EmptyStr),
      Ev("NFT_ACTIVITY", NFT_CONTRACT_ADDRESS, "0xa", ZERO_ADDRESS, None, <<>>, <<"int", 5>>),
      Ev("NFT_ACTIVITY", "0xother", "0xa", "0xb", <<"hex", 1>>, <<>>, EmptyStr),
      Ev("OTHER", NFT_CONTRACT_ADDRESS, "0xa", "0xb", <<"hex", 1>>, <<>>, EmptyStr) }

NoEvent == [type |-> "none"]

VARIABLES
    pc,               \* pc[t]: where task t stands
    tx,               \* tx[t]: the tx_hash argument of task t, as spelled in its event
    ev,               \* ev[t]: the event argument of task t
    remaining,        \* remaining[t]: seconds left of task t's asyncio.sleep(2)
    batch,            \* batch[t]: the events task t popped (tasks name their event)
    sale,             \* sale[t]: the SaleEvent task t built, or NoSale
    file,             \* file[t]: whether task t holds a discord.File for its message
    log,              \* log[t]: the outcome task t logged
    webhook_events,   \* the global buffer: lowercase hash -> list of events
    processed_sales,  \* the global de-dup set
    discord_channel,  \* the global channel handle: "channel" or "None"
    channel_messages, \* messages the channel received: {[by, sale, with_file]}
    first,            \* first[T]: the task whose event was the first of transaction T (0: none yet)
    age,              \* age[T]: seconds since that first event entered the buffer, up to GraceWindow
    in_window         \* in_window[t]: task t's event entered the buffer less than
                      \* GraceWindow seconds after the first event of its transaction

wvars == <<pc, tx, ev, remaining, batch, sale, file, log, webhook_events,
           processed_sales, discord_channel, channel_messages, first, age, in_window>>

\* One call of SalesFetcher._get_transaction_price_simple.
VARIABLES
    ppc,              \* where the call stands: the upstream query it awaits, or "done"
    p_args,           \* its arguments [tx_hash, seller, buyer]
    p_tx,             \* what eth_getTransactionByHash answered
    p_receipt,        \* what eth_getTransactionReceipt answered (until the next query)
    weth_total,       \* the local weth_total
    transfers_list,   \* the local transfers_list
    direct_list,      \* the local direct_list: the answer to the buyer-to-seller query
    p_queries,        \* the upstream queries issued so far
    p_result          \* the returned (amount, is_weth), or the exception that escaped

pvars == <<ppc, p_args, p_tx, p_receipt, weth_total, transfers_list, direct_list, p_queries, p_result>>

\* One call of SalesFetcher.fetch_last_n_sales.
VARIABLES
    spc,              \* where the call stands: "idle", "current_block", "chunk", "done"
    s_n,              \* its argument n
    current_block,    \* the local current_block
    chunk,            \* the loop variable chunk
    sales,            \* the local sales
    s_result,         \* [path, sales]: how the call ended and the list it returned
    s_priced          \* every priced candidate the provider listed so far, with its chunk

svars == <<spc, s_n, current_block, chunk, sales, s_result, s_priced>>

\* One request to handle_alchemy_webhook.
VARIABLES
    WEBHOOK_SECRET,   \* the configured secret, "" when none is configured
    h_request,        \* the request: [signature, body]
    h_response,       \* the status answered, 0 before the request
    h_parsed,         \* whether request.json() was awaited
    h_scheduled       \* the <<tx_hash, event>> pairs given to asyncio.create_task

hvars == <<WEBHOOK_SECRET, h_request, h_response, h_parsed, h_scheduled>>

\* One run of the lastsale command.
VARIABLES
    l_pc,             \* the await the command stands at, or "done"
    sales_fetcher,    \* whether the global sales_fetcher is set (on_ready has run)
    l_sale,           \* the local sale
    l_pending,        \* the message the pending followup.send carries
    l_exc,            \* the exception the outer except clause caught
    l_sent            \* the messages the interaction received, in order

lvars == <<l_pc, sales_fetcher, l_sale, l_pending, l_exc, l_sent>>

\* The metadata cache and the calls of SalesFetcher.get_nft_metadata.
VARIABLES
    metadata_cache,   \* self._metadata_cache: its <<key, value>> items, oldest first
    m_pc,             \* per call: "none", "request" (the API call is awaited), "done"
    m_token,          \* per call: the argument token_id
    m_result,         \* per call: what it returned, or "raised"
    m_cached          \* per call: whether it logged "Using cached metadata" (line 254)

cvars == <<metadata_cache, m_pc, m_token, m_result, m_cached>>

\* One call of SalesFetcher.download_image.
VARIABLES
    d_pc,             \* "idle", "get" (the response is awaited), "read", "done"
    image_url,        \* the argument, by what the code looks for in it
    d_response,       \* the response: status, Content-Type, body
    image_data,       \* the number of bytes of the local image_data
    d_result          \* what the call returned: None, or that many bytes of the body

dvars == <<d_pc, image_url, d_response, image_data, d_result>>

\* One call of SalesFetcher.fetch_nft_images.
VARIABLES
    i_pc,             \* "idle", "batch" (a gather is awaited), "done", "raised"
    i_tokens,         \* len(token_ids) of the argument
    max_images,       \* the argument
    i_index,          \* the loop variable i
    i_results,        \* the metadata results processed so far, in order
    i_picked,         \* for each of them, the URL appended for it (NoUrl if none)
    image_urls        \* the local list that is returned

ivars == <<i_pc, i_tokens, max_images, i_index, i_results, i_picked, image_urls>>

\* One call of format_price or of get_sweep_category.
VARIABLES
    f_pc,             \* "idle", "call", "done"
    f_call,           \* the function called and its arguments
    f_out             \* what the call returned, or that it raised

fvars == <<f_pc, f_call, f_out>>

\* One call of SalesFetcher._nft_api_call.
VARIABLES
    n_pc,             \* "idle", "get" (the response is awaited), "sleep", "done"
    attempt,          \* the loop variable attempt
    n_sent,           \* what each request issued so far was answered with
    n_waits,          \* the wait_time of each asyncio.sleep so far
    n_ret             \* what the call returned: "none" before it returns

nvars == <<n_pc, attempt, n_sent, n_waits, n_ret>>

\* One chunk of fetch_last_n_sales, from the provider's answer to the
\* candidates whose prices are looked up (lines 1593-1670).
VARIABLES
    k_pc,                 \* "idle", "answer" (the transfers are back), "prices"
                          \* (the gather is awaited), "done", "raised"
    k_transfers,          \* the local transfers as the provider listed them
    transfer_candidates,  \* the local transfer_candidates: the transfers kept
    price_results,        \* the local price_results: what the gather returned
    k_sales               \* the sales appended for this chunk

kvars == <<k_pc, k_transfers, transfer_candidates, price_results, k_sales>>

\* One call of SalesFetcher.get_all_image_urls_for_token.
VARIABLES
    u_pc,             \* "idle", "call", "done"
    ipfs_urls,        \* the local ipfs_urls: what get_ipfs_image_urls returned
    u_metadata,       \* what get_nft_metadata gave: it raised, {} or a document
    final_urls        \* the list the call returned

uvars == <<u_pc, ipfs_urls, u_metadata, final_urls>>

\* The attachment of one notification (bot.py lines 387-505 and 798-916).
VARIABLES
    a_pc,             \* "idle", "download", "metadata", "extract", "done"
    is_cloudinary,    \* the local is_cloudinary
    urls_to_try,      \* len(urls_to_try)
    a_downloads,      \* what each download_image so far ended in
    a_metadata,       \* the token's metadata, as get_nft_metadata gives it
    a_frame,          \* what extract_video_frame ended in, "not_called" if not called
    a_file            \* the local file: "None", "image" or "frame"

avars == <<a_pc, is_cloudinary, urls_to_try, a_downloads, a_metadata, a_frame, a_file>>

\* the state of the parts other than the webhook path and the price resolver
xvars == <<svars, hvars, lvars, cvars, dvars, ivars, fvars, nvars, kvars, uvars, avars>>

\* for each of these parts, the others
s_rest == <<hvars, lvars, cvars, dvars, ivars, fvars, nvars, kvars, uvars, avars>>
h_rest == <<svars, lvars, cvars, dvars, ivars, fvars, nvars, kvars, uvars, avars>>
l_rest == <<svars, hvars, cvars, dvars, ivars, fvars, nvars, kvars, uvars, avars>>
c_rest == <<svars, hvars, lvars, dvars, ivars, fvars, nvars, kvars, uvars, avars>>
d_rest == <<svars, hvars, lvars, cvars, ivars, fvars, nvars, kvars, uvars, avars>>
i_rest == <<svars, hvars, lvars, cvars, dvars, fvars, nvars, kvars, uvars, avars>>
f_rest == <<svars, hvars, lvars, cvars, dvars, ivars, nvars, kvars, uvars, avars>>
n_rest == <<svars, hvars, lvars, cvars, dvars, ivars, fvars, kvars, uvars, avars>>
k_rest == <<svars, hvars, lvars, cvars, dvars, ivars, fvars, nvars, uvars, avars>>
u_rest == <<svars, hvars, lvars, cvars, dvars, ivars, fvars, nvars, kvars, avars>>
a_rest == <<svars, hvars, lvars, cvars, dvars, ivars, fvars, nvars, kvars, uvars>>

vars == <<wvars, pvars, xvars>>

(***************************************************************************)
(* process_webhook_events_grouped, synchronous part (lines 285-357).       *)
(***************************************************************************)
\* line 287
AlreadyProcessedCaseSensitive(h) == h \in processed_sales
AlreadyProcessed(h) == Lower(h) \in processed_sales

\* lines 292-298: events whose log.address is the configured contract
ContractEvents(events) == SelectSeq(events, LAMBDA t : ev[t].contract = NFT_CONTRACT_ADDRESS)

\* lines 313-317
IsMintOrBurnFromOnly(e) == e.fromAddress = ZERO_ADDRESS
IsMintOrBurn(e) == e.fromAddress = ZERO_ADDRESS \/ e.toAddress = ZERO_ADDRESS

\* lines 319-336: the token id of one event, from the first place that has one
ExtractTokenId(e) ==
    LET t1 == IF e.erc721 # None THEN e.erc721 ELSE None
        t2 == IF Truthy(t1) THEN t1
              ELSE IF Len(e.erc1155) > 0 THEN e.erc1155[1] ELSE t1
        t3 == IF Truthy(t2) THEN t2 ELSE e.top
    IN t3

\* lines 309-353 for the events that are no mint or burn
RECURSIVE TokenIds(_)
TokenIds(events) ==
    IF events = <<>> THEN <<>>
    ELSE LET e == ev[Head(events)]
             rest == TokenIds(Tail(events))
         IN IF IsMintOrBurn(e) THEN rest
            ELSE IF Truthy(ExtractTokenId(e))
                 THEN <<NormalizeTokenId(ExtractTokenId(e))>> \o rest
                 ELSE rest

Buyers(events) ==
    {ev[events[i]].toAddress : i \in {j \in 1..Len(events) : ~IsMintOrBurn(ev[events[j]])}}
Sellers(events) ==
    {ev[events[i]].fromAddress : i \in {j \in 1..Len(events) : ~IsMintOrBurn(ev[events[j]])}}

\* lines 363-373: the SaleEvent of a batch
SaleEvent(h, buyer, seller, ids, price, is_weth) ==
    [tx_hash |-> h, buyer |-> buyer, seller |-> seller,
     token_id |-> IF Len(ids) = 1 THEN ids[1] ELSE None,
     token_ids |-> IF Len(ids) > 1 THEN ids ELSE None,
     token_count |-> Len(ids), total_price |-> price, is_weth |-> is_weth]

NoSale == [tx_hash |-> None]

\* line 360: the arguments of the price resolver's call for task t; seller
\* and buyer take the defaults of the signature (sales_fetcher.py 284-289)
PriceCall(t) == [tx_hash |-> tx[t], seller |-> "None", buyer |-> "None"]

\* results of the price resolver as the webhook path uses them (line 360)
WebhookPrices == {<<0, FALSE>>, <<1, TRUE>>}

(***************************************************************************)
(* process_webhook_sale_with_timeout (lines 599-625).                      *)
(***************************************************************************)
\* lines 610, 616: the key of the buffer
BufferKeyAsSpelled(h) == h
BufferKey(h) == Lower(h)

\* line 613: the length of the sleep
SleepSeconds == GraceWindow

Created == {t \in Tasks : pc[t] # "none"}

WInit ==
    /\ pc = [t \in Tasks |-> "none"]
    /\ tx = [t \in Tasks |-> <<1, "lower">>]
    /\ ev = [t \in Tasks |-> NoEvent]
    /\ remaining = [t \in Tasks |-> 0]
    /\ batch = [t \in Tasks |-> <<>>]
    /\ sale = [t \in Tasks |-> NoSale]
    /\ file = [t \in Tasks |-> FALSE]
    /\ log = [t \in Tasks |-> "none"]
    /\ webhook_events = [k \in TxHashes |-> <<>>]
    /\ processed_sales = {}
    /\ discord_channel = "None"
    /\ channel_messages = {}
    /\ first = [k \in LowerHashes |-> 0]
    /\ age = [k \in LowerHashes |-> 0]
    /\ in_window = [t \in Tasks |-> FALSE]

\* handle_alchemy_webhook, lines 678-702, for a payload of one event:
\* the event is skipped, or a task is created for it
HandleWebhook(h, e) ==
    /\ Cardinality(Created) < MaxTasks
    /\ e.type = "NFT_ACTIVITY"
    /\ e.contract = NFT_CONTRACT_ADDRESS
    /\ LET t == Cardinality(Created) + 1
       IN /\ pc' = [pc EXCEPT ![t] = "start"]
          /\ tx' = [tx EXCEPT ![t] = h]
          /\ ev' = [ev EXCEPT ![t] = e]
    /\ UNCHANGED <<remaining, batch, sale, file, log, webhook_events, processed_sales,
                   discord_channel, channel_messages, first, age, in_window>>
    /\ UNCHANGED <<pvars, xvars>>

\* lines 610-613: the task's first run, up to its sleep.  Tasks first run in
\* the order of their creation.
AppendEvent(t) ==
    /\ pc[t] = "start"
    /\ \A u \in Tasks : u < t => pc[u] # "start"
    /\ webhook_events' = [webhook_events EXCEPT ![BufferKey(tx[t])] = Append(@, t)]
    /\ remaining' = [remaining EXCEPT ![t] = SleepSeconds]
    /\ pc' = [pc EXCEPT ![t] = "sleep"]
    /\ LET T == Lower(tx[t])
       IN IF first[T] = 0
          THEN /\ first' = [first EXCEPT ![T] = t]
               /\ in_window' = [in_window EXCEPT ![t] = TRUE]
          ELSE /\ first' = first
               /\ in_window' = [in_window EXCEPT ![t] = age[T] < GraceWindow]
    /\ UNCHANGED <<tx, ev, batch, sale, file, log, processed_sales,
                   discord_channel, channel_messages, age>>
    /\ UNCHANGED <<pvars, xvars>>

\* a variant that reads the buffer of its hash and leaves it in place
PopEventsReadsBuffer(t) ==
    /\ pc[t] = "sleep"
    /\ remaining[t] = 0
    /\ LET events == webhook_events[BufferKey(tx[t])]
       IN /\ batch' = [batch EXCEPT ![t] = events]
          /\ IF events = <<>>
             THEN /\ pc' = [pc EXCEPT ![t] = "done"]
                  /\ log' = [log EXCEPT ![t] = "nothing_popped"]
             ELSE /\ pc' = [pc EXCEPT ![t] = "popped"]
                  /\ log' = log
    /\ UNCHANGED <<tx, ev, remaining, sale, file, webhook_events, processed_sales,
                   discord_channel, channel_messages, first, age, in_window>>
    /\ UNCHANGED <<pvars, xvars>>

\* lines 616-617: the sleep is over, the task pops the buffer of its hash
PopEvents(t) ==
    /\ pc[t] = "sleep"
    /\ remaining[t] = 0
    /\ LET events == webhook_events[BufferKey(tx[t])]
       IN /\ webhook_events' = [webhook_events EXCEPT ![BufferKey(tx[t])] = <<>>]
          /\ batch' = [batch EXCEPT ![t] = events]
          /\ IF events = <<>>
             THEN /\ pc' = [pc EXCEPT ![t] = "done"]
                  /\ log' = [log EXCEPT ![t] = "nothing_popped"]
             ELSE /\ pc' = [pc EXCEPT ![t] = "popped"]
                  /\ log' = log
    /\ UNCHANGED <<tx, ev, remaining, sale, file, processed_sales,
                   discord_channel, channel_messages, first, age, in_window>>
    /\ UNCHANGED <<pvars, xvars>>

\* lines 285-360: process_webhook_events_grouped up to its first await
GroupedStart(t) ==
    /\ pc[t] = "popped"
    /\ LET ids == TokenIds(ContractEvents(batch[t]))
       IN IF AlreadyProcessed(tx[t])
          THEN /\ pc' = [pc EXCEPT ![t] = "done"]
               /\ log' = [log EXCEPT ![t] = "already_processed"]
          ELSE IF ContractEvents(batch[t]) = <<>>
          THEN /\ pc' = [pc EXCEPT ![t] = "done"]
               /\ log' = [log EXCEPT ![t] = "no_contract_events"]
          ELSE IF ids = <<>>
          THEN /\ pc' = [pc EXCEPT ![t] = "done"]
               /\ log' = [log EXCEPT ![t] = "no_token_ids"]
          ELSE /\ pc' = [pc EXCEPT ![t] = "price"]
               /\ log' = log
    /\ UNCHANGED <<tx, ev, remaining, batch, sale, file, webhook_events, processed_sales,
                   discord_channel, channel_messages, first, age, in_window>>
    /\ UNCHANGED <<pvars, xvars>>

\* lines 360-376: the price is back, the SaleEvent is built, images are awaited
PriceReturn(t) ==
    /\ pc[t] = "price"
    /\ \E r \in WebhookPrices, b \in Buyers(ContractEvents(batch[t])),
          s \in Sellers(ContractEvents(batch[t])) :
          sale' = [sale EXCEPT ![t] =
                     SaleEvent(tx[t], b, s, TokenIds(ContractEvents(batch[t])), r[1], r[2])]
    /\ pc' = [pc EXCEPT ![t] = "media"]
    /\ UNCHANGED <<tx, ev, remaining, batch, file, log, webhook_events, processed_sales,
                   discord_channel, channel_messages, first, age, in_window>>
    /\ UNCHANGED <<pvars, xvars>>

\* lines 592-593
MarkProcessed(t) == processed_sales' = processed_sales \cup {Lower(tx[t])}

\* the coroutine of task t is over: its locals are gone
Finish(t, outcome) ==
    /\ pc' = [pc EXCEPT ![t] = "done"]
    /\ log' = [log EXCEPT ![t] = outcome]
    /\ sale' = [sale EXCEPT ![t] = NoSale]
    /\ file' = [file EXCEPT ![t] = FALSE]

\* lines 376-534/564: images and the attachment are back; the channel is
\* looked up when it is not set; the message is handed to the channel
MediaReturn(t) ==
    /\ pc[t] = "media"
    /\ \E found \in {"None", "channel"} :
          discord_channel' = IF discord_channel # "None" THEN discord_channel ELSE found
    /\ IF discord_channel' = "None"
       THEN /\ Finish(t, "channel_unavailable")
            /\ MarkProcessed(t)
       ELSE /\ \E f \in BOOLEAN : file' = [file EXCEPT ![t] = f]
            /\ pc' = [pc EXCEPT ![t] = "send_wait"]
            /\ UNCHANGED <<log, processed_sales, sale>>
    /\ UNCHANGED <<tx, ev, remaining, batch, webhook_events,
                   channel_messages, first, age, in_window>>
    /\ UNCHANGED <<pvars, xvars>>

\* discord_channel.send (lines 534, 549, 564) reaches the channel
ChannelAccepts(t) ==
    /\ pc[t] = "send_wait"
    /\ channel_messages' = channel_messages \cup
                             {[by |-> t, sale |-> sale[t], with_file |-> file[t]]}
    /\ pc' = [pc EXCEPT ![t] = "send_acked"]
    /\ UNCHANGED <<tx, ev, remaining, batch, sale, file, log, webhook_events,
                   processed_sales, discord_channel, first, age, in_window>>
    /\ UNCHANGED <<pvars, xvars>>

\* discord_channel.send raises: an HTTPException of a send with a file is
\* answered by a send without the file (lines 543-549), every other
\* exception is logged (lines 577-588) and the hash marked (line 593)
ChannelRejects(t, http) ==
    /\ pc[t] = "send_wait"
    /\ IF http /\ file[t]
       THEN /\ file' = [file EXCEPT ![t] = FALSE]
            /\ UNCHANGED <<pc, log, processed_sales, sale>>
       ELSE /\ Finish(t, "send_failed")
            /\ MarkProcessed(t)
    /\ UNCHANGED <<tx, ev, remaining, batch, webhook_events,
                   discord_channel, channel_messages, first, age, in_window>>
    /\ UNCHANGED <<pvars, xvars>>

\* lines 535-593: send returned the message; the hash is marked
SendReturn(t) ==
    /\ pc[t] = "send_acked"
    /\ Finish(t, "posted")
    /\ MarkProcessed(t)
    /\ UNCHANGED <<tx, ev, remaining, batch, webhook_events,
                   discord_channel, channel_messages, first, age, in_window>>
    /\ UNCHANGED <<pvars, xvars>>

\* lines 618-623: wait_for cancels process_webhook_events_grouped at the
\* await it is suspended in; the cancellation passes its except clauses
InGrouped(t) == pc[t] \in {"price", "media", "send_wait", "send_acked"}

\* a variant that puts the batch back into the buffer when it is cut off
TimeoutRequeues(t) ==
    /\ InGrouped(t)
    /\ Finish(t, "timeout")
    /\ webhook_events' = [webhook_events EXCEPT ![BufferKey(tx[t])] = @ \o batch[t]]
    /\ UNCHANGED <<tx, ev, remaining, batch, processed_sales,
                   discord_channel, channel_messages, first, age, in_window>>
    /\ UNCHANGED <<pvars, xvars>>

Timeout(t) ==
    /\ InGrouped(t)
    /\ Finish(t, "timeout")
    /\ UNCHANGED <<tx, ev, remaining, batch, webhook_events, processed_sales,
                   discord_channel, channel_messages, first, age, in_window>>
    /\ UNCHANGED <<pvars, xvars>>

\* a second passes: every task that was ready to run has run, every sleep
\* that was over has ended
Tick ==
    /\ \A t \in Tasks : pc[t] # "start" /\ (pc[t] = "sleep" => remaining[t] > 0)
    /\ \/ \E t \in Tasks : pc[t] = "sleep"
       \/ \E T \in LowerHashes : first[T] # 0 /\ age[T] < GraceWindow
    /\ remaining' = [t \in Tasks |-> IF pc[t] = "sleep" THEN remaining[t] - 1 ELSE remaining[t]]
    /\ age' = [T \in LowerHashes |->
                 IF first[T] # 0 /\ age[T] < GraceWindow THEN age[T] + 1 ELSE age[T]]
    /\ UNCHANGED <<pc, tx, ev, batch, sale, file, log, webhook_events, processed_sales,
                   discord_channel, channel_messages, first, in_window>>
    /\ UNCHANGED <<pvars, xvars>>

(***************************************************************************)
(* SalesFetcher._get_transaction_price_simple (sales_fetcher.py 284-588).  *)
(*                                                                         *)
(* A JSON field that the code reads as a hex number is <<"hex", n>> (a     *)
(* string int(s, 16) turns into n; "-0x1" gives -1), <<"dec", n>> (a       *)
(* decimal string without 0x), <<"badhex", 0>> (a string that is no        *)
(* number: ValueError), <<"nonstr", 0>> (a value that is no string:        *)
(* TypeError) or <<"missing", 0>> (the key is absent or null).             *)
(***************************************************************************)
\* bound: the number of logs of a receipt
MaxLogs == 2
\* bound: the number of transfers of one alchemy_getAssetTransfers answer
MaxTransfers == 2

WETH_CONTRACT == "0xweth"
TRANSFER_TOPIC == "0xddf252ad"
NoAddr == "None"

\* lines 425-426, 450-451, 486-487, 550: the block windows
DirectWindow == 100
WideWindowBefore == 1000
RangeWindow == 20
NearBlocks == 5

Zero == <<"hex", 0>>
Missing == <<"missing", 0>>

SeqsUpTo(S, n) == UNION {[1..k -> S] : k \in 0..n}

\* dict.get(key, default)
GetOr(v, default) == IF v = Missing THEN default ELSE v

\* int(s, 16)
Int16(v) ==
    CASE v[1] = "hex" -> [ok |-> TRUE, n |-> v[2], err |-> "none"]
      [] v[1] = "dec" -> [ok |-> TRUE, n |-> v[2], err |-> "none"]
      [] v[1] = "nonstr" -> [ok |-> FALSE, n |-> 0, err |-> "TypeError"]
      [] OTHER -> [ok |-> FALSE, n |-> 0, err |-> "ValueError"]

Max(a, b) == IF a >= b THEN a ELSE b
Abs(a) == IF a >= 0 THEN a ELSE 0 - a

Result(amount, is_weth) == [amount |-> amount, is_weth |-> is_weth, raised |-> FALSE]
Raised == [amount |-> 0, is_weth |-> FALSE, raised |-> TRUE]

\* lines 586-588: the outermost except turns every exception into (0, False)
OuterExceptMissing(r) == r
OuterExcept(r) == IF r.raised THEN Result(0, FALSE) ELSE r

(***************************************************************************)
(* Upstream answers.                                                        *)
(***************************************************************************)
\* eth_getTransactionByHash: {} (ok = FALSE) or a transaction
TxAnswers ==
    {[ok |-> FALSE, value |-> Missing, blockNumber |-> Missing]} \cup
    [ok : {TRUE},
     value : {Missing, Zero, <<"hex", 5>>, <<"hex", -1>>, <<"badhex", 0>>},
     blockNumber : {Missing, <<"hex", 2000>>, <<"badhex", 0>>}]

\* a topic that carries an address, left-padded to 32 bytes
Pad(a) == <<"pad", a>>
\* lines 375-376: "0x" + topic[-40:]
TopicAddress(topic) == topic[2]

Log(address, topics, data) == [address |-> address, topics |-> topics, data |-> data]

LogShapes ==
    { Log(WETH_CONTRACT, <<TRANSFER_TOPIC, Pad("0xb"), Pad("0xs")>>, <<"hex", 1>>),
      Log(WETH_CONTRACT, <<TRANSFER_TOPIC, Pad("0xb"), Pad("0xs")>>, <<"hex", 2>>),
      Log(WETH_CONTRACT, <<TRANSFER_TOPIC, Pad("0xb"), Pad("0xm")>>, <<"hex", 2>>),
      Log(WETH_CONTRACT, <<TRANSFER_TOPIC, Pad("0xm"), Pad("0xf")>>, <<"hex", 4>>),
      Log(WETH_CONTRACT, <<TRANSFER_TOPIC, Pad("0xb"), Pad("0xs")>>, Zero),
      Log(WETH_CONTRACT, <<TRANSFER_TOPIC, Pad("0xb"), Pad("0xs")>>, <<"badhex", 0>>),
      Log(WETH_CONTRACT, <<"0xdeposit", Pad("0xs")>>, <<"hex", 8>>),
      Log(NFT_CONTRACT_ADDRESS, <<TRANSFER_TOPIC, Pad("0xs"), Pad("0xb"), Pad("0x1")>>, Missing),
      Log(WETH_CONTRACT, <<"null", Pad("0xb"), Pad("0xs")>>, <<"hex", 1>>) }

\* eth_getTransactionReceipt: {} (ok = FALSE) or a receipt
NoReceipt == [ok |-> FALSE, logs |-> <<>>]
ReceiptAnswers == {NoReceipt} \cup [ok : {TRUE}, logs : SeqsUpTo(LogShapes, MaxLogs)]

Transfer(wf, hash, from, to, value, blockNum) ==
    [wellformed |-> wf, hash |-> hash, from |-> from, to |-> to,
     value |-> value, blockNum |-> blockNum]

TransferShapes ==
    { Transfer(TRUE, <<1, "lower">>, "0xb", "0xs", <<"hex", 1>>, <<"hex", 2000>>),
      Transfer(TRUE, <<1, "lower">>, "0xb", "0xm", <<"hex", 2>>, <<"hex", 2000>>),
      Transfer(TRUE, <<2, "lower">>, "0xb", "0xs", <<"hex", 2>>, <<"hex", 2005>>),
      Transfer(TRUE, <<3, "lower">>, "0xb", "0xs", <<"hex", 4>>, <<"dec", 2006>>),
      Transfer(TRUE, <<2, "lower">>, "0xm", "0xs", <<"hex", 1>>, Missing),
      Transfer(TRUE, <<3, "lower">>, "0xb", "0xs", <<"nonstr", 0>>, <<"hex", 2000>>),
      Transfer(TRUE, <<1, "lower">>, "0xb", "0xs", <<"hex", -1>>, <<"badhex", 0>>),
      Transfer(FALSE, <<3, "lower">>, NoAddr, NoAddr, Missing, Missing) }

\* alchemy_getAssetTransfers: the "transfers" list ({} counts as no transfer)
TransferAnswers == SeqsUpTo(TransferShapes, MaxTransfers)

PriceArgs == [tx_hash : {<<1, "mixed">>}, seller : {NoAddr, "0xs"}, buyer : {NoAddr, "0xb"}]

(***************************************************************************)
(* Lines 302-322: the transaction and its native value.                    *)
(***************************************************************************)
\* what lines 304-322 end in: "return", "raise" or "continue"
TxStep(txa) ==
    LET v == Int16(GetOr(txa.value, Zero))
        b == Int16(txa.blockNumber)
    IN IF ~txa.ok THEN "return"
       ELSE IF ~v.ok THEN "raise"
       ELSE IF v.n > 0 THEN "return"
       ELSE IF txa.blockNumber = Missing THEN "return"
       ELSE IF ~b.ok THEN "raise"
       ELSE "continue"

\* the value lines 306, 313, 320 return
TxReturnBlockFirst(txa) ==
    LET v == Int16(GetOr(txa.value, Zero))
    IN IF txa.ok /\ txa.blockNumber # Missing /\ v.ok /\ v.n > 0
       THEN Result(v.n, FALSE) ELSE Result(0, FALSE)
TxReturn(txa) ==
    LET v == Int16(GetOr(txa.value, Zero))
    IN IF txa.ok /\ v.ok /\ v.n > 0 THEN Result(v.n, FALSE) ELSE Result(0, FALSE)

(***************************************************************************)
(* Lines 336-418: strategy 0, the WETH Transfer logs of the receipt.       *)
(***************************************************************************)
\* lines 379-382
LogAmount(l) ==
    LET v == Int16(GetOr(l.data, Zero)) IN IF v.ok THEN v.n ELSE 0

\* lines 363-399, log by log: acc = [total, all, raised]
RECURSIVE ScanLogs(_, _, _)
ScanLogs(logs, seller, acc) ==
    IF logs = <<>> \/ acc.raised THEN acc
    ELSE LET l == Head(logs)
             rest == Tail(logs)
         IN IF l.address # WETH_CONTRACT \/ Len(l.topics) < 3
            THEN ScanLogs(rest, seller, acc)
            ELSE IF l.topics[1] = "null"
            THEN [acc EXCEPT !.raised = TRUE]
            ELSE IF l.topics[1] # TRANSFER_TOPIC
            THEN ScanLogs(rest, seller, acc)
            ELSE LET amount == LogAmount(l)
                     to == TopicAddress(l.topics[3])
                     all == IF amount > 0 THEN Append(acc.all, amount) ELSE acc.all
                     total == IF seller # NoAddr /\ to = seller /\ amount > 0
                              THEN acc.total + amount ELSE acc.total
                 IN ScanLogs(rest, seller, [total |-> total, all |-> all, raised |-> FALSE])

RECURSIVE SeqMax(_)
SeqMax(seq) == IF seq = <<>> THEN 0 ELSE Max(Head(seq), SeqMax(Tail(seq)))

\* line 405: the amount of the largest transfer
LargestFirst(all) == all[1]
Largest(all) == SeqMax(all)

\* lines 336-414: weth_total after strategy 0
Strategy0LargestAlways(receipt, seller) ==
    IF ~receipt.ok \/ receipt.logs = <<>> THEN 0
    ELSE LET scan == ScanLogs(receipt.logs, seller,
                              [total |-> 0, all |-> <<>>, raised |-> FALSE])
         IN IF scan.raised THEN scan.total
            ELSE IF scan.all # <<>> THEN SeqMax(scan.all)
            ELSE scan.total
Strategy0(receipt, seller) ==
    IF ~receipt.ok \/ receipt.logs = <<>> THEN 0
    ELSE LET scan == ScanLogs(receipt.logs, seller,
                              [total |-> 0, all |-> <<>>, raised |-> FALSE])
         IN IF scan.raised THEN scan.total
            ELSE IF scan.total = 0 /\ scan.all # <<>> THEN Largest(scan.all)
            ELSE scan.total

(***************************************************************************)
(* Lines 420-582: the transfer-history strategies.                          *)
(***************************************************************************)
Query(method, from_address, to_address, from_block, to_block) ==
    [method |-> method, from_address |-> from_address, to_address |-> to_address,
     from_block |-> from_block, to_block |-> to_block]

\* lines 440-443: every transfer of the direct answer is kept;
\* reading a record that is no dict raises
RECURSIVE AllWellFormed(_)
AllWellFormed(list) ==
    list = <<>> \/ (Head(list).wellformed /\ AllWellFormed(Tail(list)))

\* list[:5]
FirstFive(list) == SubSeq(list, 1, IF Len(list) < 5 THEN Len(list) ELSE 5)

\* lines 462-482: of the buyer's first five transfers, those to the seller
\* whose value parses
ToSeller(list, seller) ==
    SelectSeq(list, LAMBDA tr : Int16(GetOr(tr.value, Zero)).ok /\ tr.to = seller)

\* lines 503-507: a transfer of the block range is added unless a transfer
\* of the same transaction is already in the list
RECURSIVE Merge(_, _)
Merge(list, more) ==
    IF more = <<>> THEN list
    ELSE IF \E i \in 1..Len(list) : Lower(list[i].hash) = Lower(Head(more).hash)
         THEN Merge(list, Tail(more))
         ELSE Merge(Append(list, Head(more)), Tail(more))

\* int(transfer_block, 16) if it starts with "0x" else int(transfer_block)
BlockOf(tr) == Int16(tr.blockNum)

\* lines 516-578: what one transfer adds to weth_total
Counted(tr, a, block_num) ==
    LET v == Int16(GetOr(tr.value, Zero))
        amount == v.n
        b == BlockOf(tr)
    IN IF ~v.ok \/ GetOr(tr.value, Zero) = Zero THEN 0
       ELSE IF Lower(tr.hash) = Lower(a.tx_hash)
       THEN IF a.seller # NoAddr /\ tr.to = a.seller THEN amount
            ELSE IF a.seller = NoAddr THEN amount
            ELSE 0
       ELSE IF a.seller # NoAddr /\ a.buyer # NoAddr
       THEN IF tr.from = a.buyer /\ tr.to = a.seller
            THEN IF tr.blockNum = Missing THEN amount
                 ELSE IF ~b.ok THEN amount
                 ELSE IF Abs(b.n - block_num) <= NearBlocks THEN amount ELSE 0
            ELSE 0
       ELSE IF a.seller # NoAddr /\ tr.to = a.seller
       THEN IF tr.blockNum # Missing /\ b.ok /\ Abs(b.n - block_num) <= NearBlocks
            THEN amount ELSE 0
       ELSE 0

RECURSIVE SumCounted(_, _, _)
SumCounted(list, a, block_num) ==
    IF list = <<>> THEN 0
    ELSE Counted(Head(list), a, block_num) + SumCounted(Tail(list), a, block_num)

\* lines 580-585: the final return
FinalReturnNonZero(total) == IF total # 0 THEN Result(total, TRUE) ELSE Result(0, FALSE)
FinalReturn(total) == IF total > 0 THEN Result(total, TRUE) ELSE Result(0, FALSE)

BlockNum == Int16(p_tx.blockNumber).n

(***************************************************************************)
(* The call, one upstream query at a time.                                  *)
(***************************************************************************)
\* no call of fetch_last_n_sales has been made
NoScanResult == [path |-> "none", sales |-> <<>>]

SIdle ==
    /\ spc = "idle"
    /\ s_n = 1
    /\ current_block = 0
    /\ chunk = 0
    /\ sales = <<>>
    /\ s_result = NoScanResult
    /\ s_priced = <<>>

NoRequest == [signature |-> "", body |-> [kind |-> "none"]]

HIdle ==
    /\ WEBHOOK_SECRET = ""
    /\ h_request = NoRequest
    /\ h_response = 0
    /\ h_parsed = FALSE
    /\ h_scheduled = <<>>

\* the parts other than the webhook path and the price resolver are at rest
NoMessage == [kind |-> "none", with_file |-> FALSE]

LIdle ==
    /\ l_pc = "idle"
    /\ sales_fetcher = FALSE
    /\ l_sale = NoSale
    /\ l_pending = NoMessage
    /\ l_exc = "none"
    /\ l_sent = <<>>

\* bound: the number of get_nft_metadata calls in progress at once
MaxCalls == 2
Calls == 1..MaxCalls

CIdle ==
    /\ metadata_cache = <<>>
    /\ m_pc = [c \in Calls |-> "none"]
    /\ m_token = [c \in Calls |-> <<"dec", 1>>]
    /\ m_result = [c \in Calls |-> "none"]
    /\ m_cached = [c \in Calls |-> FALSE]

NoResponse == [status |-> 0, content_type |-> <<"", "lower">>, magic |-> "none", size |-> 0]
ReturnedNone == [bytes |-> FALSE, size |-> 0]

DIdle ==
    /\ d_pc = "idle"
    /\ image_url = "plain"
    /\ d_response = NoResponse
    /\ image_data = 0
    /\ d_result = ReturnedNone

\* a URL string, by what the code looks at: its scheme prefix, whether it
\* contains one of the video markers of line 664, '.mp4' or the CDN host,
\* the number of characters after the prefix and before '?', and the number
\* of characters from '?' on; name tells the strings of a document apart
Url(name, scheme, video, mp4, cdn, body, query) ==
    [name |-> name, scheme |-> scheme, video |-> video, mp4 |-> mp4, cdn |-> cdn,
     body |-> body, query |-> query]
NoUrl == Url("", "", FALSE, FALSE, FALSE, 0, 0)

IIdle ==
    /\ i_pc = "idle"
    /\ i_tokens = 0
    /\ max_images = 0
    /\ i_index = 0
    /\ i_results = <<>>
    /\ i_picked = <<>>
    /\ image_urls = <<>>

\* an integer amount is the sequence of its decimal digits, the most
\* significant first, as str(price_wei) gives them
FormatCall(price_wei, is_weth) ==
    [fn |-> "format_price", price_wei |-> price_wei, is_weth |-> is_weth, token_count |-> 0]
CategoryCall(token_count) ==
    [fn |-> "get_sweep_category", price_wei |-> <<0>>, is_weth |-> FALSE,
     token_count |-> token_count]
\* a returned price string "<whole>[.<frac>] <currency>", a returned pair
\* (name, color), or an exception
PriceString(whole, frac, currency) ==
    [raised |-> FALSE, whole |-> whole, frac |-> frac, currency |-> currency,
     name |-> "", color |-> 0]
Category(name, color) ==
    [raised |-> FALSE, whole |-> <<>>, frac |-> <<>>, currency |-> "",
     name |-> name, color |-> color]
InvalidOperation ==
    [raised |-> TRUE, whole |-> <<>>, frac |-> <<>>, currency |-> "", name |-> "", color |-> 0]

FIdle ==
    /\ f_pc = "idle"
    /\ f_call = CategoryCall(1)
    /\ f_out = Category("", 0)

NIdle ==
    /\ n_pc = "idle"
    /\ attempt = 0
    /\ n_sent = <<>>
    /\ n_waits = <<>>
    /\ n_ret = "none"

KIdle ==
    /\ k_pc = "idle"
    /\ k_transfers = <<>>
    /\ transfer_candidates = <<>>
    /\ price_results = <<>>
    /\ k_sales = <<>>

UIdle ==
    /\ u_pc = "idle"
    /\ ipfs_urls = <<>>
    /\ u_metadata = [t |-> "empty"]
    /\ final_urls = <<>>

AIdle ==
    /\ a_pc = "idle"
    /\ is_cloudinary = FALSE
    /\ urls_to_try = 0
    /\ a_downloads = <<>>
    /\ a_metadata = [t |-> "empty", ipfs |-> FALSE, video |-> FALSE]
    /\ a_frame = "not_called"
    /\ a_file = "None"

XIdle == SIdle /\ HIdle /\ LIdle /\ CIdle /\ DIdle /\ IIdle /\ FIdle /\ NIdle /\ KIdle /\ UIdle /\ AIdle

PIdle ==
    /\ ppc = "idle"
    /\ p_args = [tx_hash |-> <<1, "mixed">>, seller |-> NoAddr, buyer |-> NoAddr]
    /\ p_tx = [ok |-> FALSE, value |-> Missing, blockNumber |-> Missing]
    /\ p_receipt = NoReceipt
    /\ weth_total = 0
    /\ transfers_list = <<>>
    /\ direct_list = <<>>
    /\ p_queries = <<>>
    /\ p_result = Result(0, FALSE)

\* the call is made: line 304 awaits the transaction
PInit ==
    /\ WInit
    /\ XIdle
    /\ ppc = "get_transaction"
    /\ p_args \in PriceArgs
    /\ p_tx = [ok |-> FALSE, value |-> Missing, blockNumber |-> Missing]
    /\ p_receipt = NoReceipt
    /\ weth_total = 0
    /\ transfers_list = <<>>
    /\ direct_list = <<>>
    /\ p_queries = <<Query("eth_getTransactionByHash", NoAddr, NoAddr, 0, 0)>>
    /\ p_result = Result(0, FALSE)

Return(r) ==
    /\ ppc' = "done"
    /\ p_result' = OuterExcept(r)

\* lines 304-337: the transaction is back
GetTransaction(txa) ==
    /\ ppc = "get_transaction"
    /\ p_tx' = txa
    /\ CASE TxStep(txa) = "return" ->
              /\ Return(TxReturn(txa))
              /\ UNCHANGED p_queries
         [] TxStep(txa) = "raise" ->
              /\ Return(Raised)
              /\ UNCHANGED p_queries
         [] OTHER ->
              /\ ppc' = "get_transaction_receipt"
              /\ p_queries' = Append(p_queries,
                                     Query("eth_getTransactionReceipt", NoAddr, NoAddr, 0, 0))
              /\ UNCHANGED p_result
    /\ UNCHANGED <<p_args, p_receipt, weth_total, transfers_list, direct_list, wvars, xvars>>

\* the query after strategy 0: lines 422-435 with buyer and seller, else 486-497
AfterStrategy0 ==
    IF p_args.buyer # NoAddr /\ p_args.seller # NoAddr
    THEN /\ ppc' = "direct_transfers"
         /\ p_queries' = Append(p_queries,
                Query("alchemy_getAssetTransfers", p_args.buyer, p_args.seller,
                      Max(0, BlockNum - DirectWindow), BlockNum + DirectWindow))
    ELSE /\ ppc' = "block_range_transfers"
         /\ p_queries' = Append(p_queries,
                Query("alchemy_getAssetTransfers", NoAddr, NoAddr,
                      Max(0, BlockNum - RangeWindow), BlockNum + RangeWindow))

\* lines 337-435: the receipt is back, strategy 0 runs
GetReceipt(receipt) ==
    /\ ppc = "get_transaction_receipt"
    /\ p_receipt' = receipt
    /\ weth_total' = Strategy0(receipt, p_args.seller)
    /\ IF weth_total' > 0
       THEN /\ Return(Result(weth_total', TRUE))
            /\ UNCHANGED p_queries
       ELSE /\ AfterStrategy0
            /\ UNCHANGED p_result
    /\ UNCHANGED <<p_args, p_tx, transfers_list, direct_list, wvars, xvars>>

\* lines 436-458: the buyer-to-seller transfers are back (strategy 1)
DirectTransfers(answer) ==
    /\ ppc = "direct_transfers"
    /\ p_receipt' = NoReceipt
    /\ IF ~AllWellFormed(answer)
       THEN /\ Return(Raised)
            /\ UNCHANGED <<transfers_list, direct_list, p_queries>>
       ELSE /\ transfers_list' = transfers_list \o answer
            /\ direct_list' = answer
            /\ UNCHANGED p_result
            /\ IF Len(answer) = 0
               THEN /\ ppc' = "buyer_transfers"
                    /\ p_queries' = Append(p_queries,
                           Query("alchemy_getAssetTransfers", p_args.buyer, NoAddr,
                                 Max(0, BlockNum - WideWindowBefore), BlockNum + DirectWindow))
               ELSE /\ ppc' = "block_range_transfers"
                    /\ p_queries' = Append(p_queries,
                           Query("alchemy_getAssetTransfers", NoAddr, NoAddr,
                                 Max(0, BlockNum - RangeWindow), BlockNum + RangeWindow))
    /\ UNCHANGED <<p_args, p_tx, weth_total, wvars, xvars>>

\* lines 459-497: the buyer's transfers are back (strategy 1b)
BuyerTransfers(answer) ==
    /\ ppc = "buyer_transfers"
    /\ IF ~AllWellFormed(FirstFive(answer))
       THEN /\ Return(Raised)
            /\ UNCHANGED <<transfers_list, p_queries>>
       ELSE /\ transfers_list' = transfers_list \o ToSeller(FirstFive(answer), p_args.seller)
            /\ ppc' = "block_range_transfers"
            /\ p_queries' = Append(p_queries,
                   Query("alchemy_getAssetTransfers", NoAddr, NoAddr,
                         Max(0, BlockNum - RangeWindow), BlockNum + RangeWindow))
            /\ UNCHANGED p_result
    /\ UNCHANGED <<p_args, p_tx, p_receipt, weth_total, direct_list, wvars, xvars>>

\* lines 499-585: the transfers of the block range are back (strategy 2)
BlockRangeTransfers(answer) ==
    /\ ppc = "block_range_transfers"
    /\ p_receipt' = NoReceipt
    /\ IF ~AllWellFormed(answer)
       THEN /\ Return(Raised)
            /\ UNCHANGED <<transfers_list, weth_total>>
       ELSE /\ transfers_list' = Merge(transfers_list, answer)
            /\ weth_total' = weth_total + SumCounted(transfers_list', p_args, BlockNum)
            /\ Return(FinalReturn(weth_total'))
    /\ UNCHANGED <<p_args, p_tx, p_queries, direct_list, wvars, xvars>>

PNext ==
    \/ \E txa \in TxAnswers : GetTransaction(txa)
    \/ \E receipt \in ReceiptAnswers : GetReceipt(receipt)
    \/ \E answer \in TransferAnswers : DirectTransfers(answer)
    \/ \E answer \in TransferAnswers : BuyerTransfers(answer)
    \/ \E answer \in TransferAnswers : BlockRangeTransfers(answer)

SpecPrice == PInit /\ [][PNext]_vars

(***************************************************************************)
(* SalesFetcher.fetch_last_n_sales (sales_fetcher.py lines 1547-1764).     *)
(***************************************************************************)
\* lines 1567-1568
block_chunk_size == 3000
max_chunks == 3
\* bound: stands for max_transfers_per_chunk = 100 of line 1612
max_transfers_per_chunk == 2
\* bound: the number of transfers of one answer of the provider to a chunk query
MaxChunkTransfers == 3
\* bound: the largest argument n of a call
MaxN == 3

\* the empty string where a transaction hash is expected
EmptyHash == <<0, "empty">>

\* One transfer of the provider's answer, with the answer the price resolver
\* gives for it (line 1675 passes hash, from and to of the transfer).
ScanTransfer(hash, from, to, blockNum, transactionIndex, tokenId, price) ==
    [hash |-> hash, from |-> from, to |-> to, blockNum |-> blockNum,
     transactionIndex |-> transactionIndex, tokenId |-> tokenId, price |-> price]

\* the transfers a chunk query over from_block..to_block may list
ChunkTransferShapes(from_block, to_block) ==
    LET hi == <<"hex", to_block>>
        lo == <<"hex", from_block>>
    IN {ScanTransfer(<<1, "lower">>, "0xa", "0xb", hi, <<"hex", 1>>, <<"hex", 1>>, Result(1, FALSE)),
        ScanTransfer(<<1, "mixed">>, "0xa", "0xb", hi, <<"hex", 1>>, <<"hex", 2>>, Result(1, FALSE)),
        ScanTransfer(<<2, "lower">>, "0xc", "0xb", hi, <<"hex", 2>>, <<"dec", 3>>, Result(2, TRUE)),
        ScanTransfer(<<3, "lower">>, "0xa", "0xc", lo, Missing, <<"hex", 4>>, Result(3, FALSE)),
        ScanTransfer(<<4, "lower">>, "0xc", "0xa", hi, <<"hex", 3>>, <<"hex", 5>>, Result(0, FALSE)),
        ScanTransfer(<<6, "lower">>, ZERO_ADDRESS, "0xb", hi, <<"hex", 4>>, <<"hex", 6>>, Result(1, FALSE)),
        ScanTransfer(<<5, "lower">>, "0xa", ZERO_ADDRESS, hi, <<"hex", 5>>, <<"hex", 1>>, Result(1, FALSE)),
        ScanTransfer(<<3, "lower">>, "0xa", "0xc", <<"badhex", 0>>, <<"badhex", 0>>, <<"hex", 4>>, Result(3, FALSE)),
        ScanTransfer(<<2, "lower">>, "null", "0xb", hi, <<"hex", 2>>, <<"hex", 3>>, Result(2, TRUE))}

\* the provider lists a transfer once in an answer
DistinctSeqsUpTo(S, k) ==
    {s \in SeqsUpTo(S, k) : \A i, j \in 1..Len(s) : s[i] = s[j] => i = j}

\* answers of get_asset_transfers: {} when the call failed (lines 1581-1591)
ChunkAnswers(from_block, to_block) ==
    {[ok |-> FALSE, transfers |-> <<>>]}
      \cup {[ok |-> TRUE, transfers |-> s] :
               s \in DistinctSeqsUpTo(ChunkTransferShapes(from_block, to_block),
                                      MaxChunkTransfers)}

\* answers of eth_blockNumber: an empty result, or a string (lines 279-282)
CurrentBlockAnswers ==
    {Missing, <<"badhex", 0>>, Zero, <<"hex", 2>>, <<"hex", 10000>>}

\* lines 1597-1603, 1632-1638, 1641-1647: a hex field that defaults to 0
HexOrZero(v) ==
    IF v = Missing \/ v = Zero THEN 0
    ELSE IF Int16(v).ok THEN Int16(v).n ELSE 0

\* lines 1649-1661
ScanTokenId(raw) ==
    IF raw = Missing \/ raw = EmptyStr THEN EmptyStr ELSE NormalizeTokenId(raw)

\* a < b for keys <<block number, transaction index>>
KeyLess(a, b) == a[1] < b[1] \/ (a[1] = b[1] /\ a[2] < b[2])

\* list.sort(key=..., reverse=True) on a sequence of <<key, item>>: descending
\* and stable, items of equal key keep their order
RECURSIVE InsertReverse(_, _)
InsertReverse(x, s) ==
    IF s = <<>> THEN <<x>>
    ELSE IF KeyLess(Head(s)[1], x[1]) THEN <<x>> \o s
    ELSE <<Head(s)>> \o InsertReverse(x, Tail(s))

RECURSIVE SortReverse(_)
SortReverse(s) ==
    IF s = <<>> THEN <<>>
    ELSE InsertReverse(s[Len(s)], SortReverse(SubSeq(s, 1, Len(s) - 1)))

Items(keyed) == [i \in 1..Len(keyed) |-> keyed[i][2]]

\* lines 1595-1608: transfers by block number, most recent first
SortTransfers(transfers) ==
    Items(SortReverse([i \in 1..Len(transfers) |->
                          <<<<HexOrZero(transfers[i].blockNum), 0>>, transfers[i]>>]))

\* s[:k]
FirstN(s, k) == SubSeq(s, 1, IF Len(s) < k THEN Len(s) ELSE k)

\* lines 1612-1615
Capped(transfers) == FirstN(transfers, max_transfers_per_chunk)

\* lines 1620-1621: .lower() of a null address raises
AddressRaises(tr) == tr.from = "null" \/ tr.to = "null"

\* lines 1624-1629: the transfers that become candidates
ScanIsMintOrBurnNever(tr) == FALSE
ScanIsMintOrBurn(tr) == tr.from = ZERO_ADDRESS \/ tr.to = ZERO_ADDRESS
IsCandidate(tr) == ~ScanIsMintOrBurn(tr) /\ tr.hash # EmptyHash

\* lines 1682-1694: the price results that make a sale
PricedAlways(price) == ~price.raised
Priced(price) == ~price.raised /\ price.amount # 0

\* lines 1663-1670 and 1696-1711: the SaleEvent of a priced candidate
ScanSale(tr) ==
    [tx_hash |-> tr.hash, buyer |-> tr.to, seller |-> tr.from,
     token_id |-> ScanTokenId(tr.tokenId), token_ids |-> <<ScanTokenId(tr.tokenId)>>,
     token_count |-> 1, total_price |-> tr.price.amount, is_weth |-> tr.price.is_weth,
     block_number |-> HexOrZero(tr.blockNum), tx_index |-> HexOrZero(tr.transactionIndex)]

NewSales(transfers) ==
    LET made == SelectSeq(transfers, LAMBDA tr : IsCandidate(tr) /\ Priced(tr.price))
    IN [i \in 1..Len(made) |-> ScanSale(made[i])]

\* lines 1717, 1741
SortSalesNone(s) == s
SortSales(s) ==
    Items(SortReverse([i \in 1..Len(s) |-> <<<<s[i].block_number, s[i].tx_index>>, s[i]>>]))

\* lines 1720-1726, 1744-1749: the first sale of each transaction hash
RECURSIVE UniqueSalesBy(_, _, _)
UniqueSalesBy(s, seen_hashes, lower) ==
    IF s = <<>> THEN <<>>
    ELSE LET h == IF lower THEN Lower(Head(s).tx_hash) ELSE Head(s).tx_hash
         IN IF h \in seen_hashes THEN UniqueSalesBy(Tail(s), seen_hashes, lower)
            ELSE <<Head(s)>> \o UniqueSalesBy(Tail(s), seen_hashes \cup {h}, lower)

UniqueSalesCaseSensitive(s) == UniqueSalesBy(s, {}, FALSE)
UniqueSales(s) == UniqueSalesBy(s, {}, TRUE)

\* lines 1572-1573
ToBlock(c) == current_block - c * block_chunk_size
FromBlock(c) == Max(0, ToBlock(c) - block_chunk_size)

\* the call is made: line 1559 awaits the current block
SInit ==
    /\ WInit
    /\ PIdle
    /\ AIdle
    /\ UIdle
    /\ KIdle
    /\ NIdle
    /\ FIdle
    /\ IIdle
    /\ DIdle
    /\ CIdle
    /\ HIdle
    /\ LIdle
    /\ spc = "current_block"
    /\ s_n \in 1..MaxN
    /\ current_block = 0
    /\ chunk = 0
    /\ sales = <<>>
    /\ s_result = NoScanResult
    /\ s_priced = <<>>

\* the call returns
ScanReturn(path, list) ==
    /\ spc' = "done"
    /\ s_result' = [path |-> path, sales |-> list]

\* lines 1762-1764
ScanExcept == ScanReturn("except", <<>>)

\* lines 1739-1760
ScanFinalReturn(sl) == ScanReturn("final", FirstN(UniqueSales(SortSales(sl)), s_n))

\* lines 1559-1563
GetCurrentBlock(answer) ==
    /\ spc = "current_block"
    /\ IF answer = Missing
       THEN ScanReturn("no_block", <<>>) /\ UNCHANGED current_block
       ELSE IF ~Int16(answer).ok
       THEN ScanExcept /\ UNCHANGED current_block
       ELSE IF Int16(answer).n = 0
       THEN ScanReturn("no_block", <<>>) /\ UNCHANGED current_block
       ELSE /\ current_block' = Int16(answer).n
            /\ spc' = "chunk"
            /\ UNCHANGED s_result
    /\ UNCHANGED <<s_n, chunk, sales, s_priced, wvars, pvars, s_rest>>

\* a variant whose loop ends only at the break of line 1576
NextChunkUntilBreak(sl) ==
    IF FromBlock(chunk + 1) >= ToBlock(chunk + 1)
    THEN ScanFinalReturn(sl) /\ UNCHANGED <<chunk, sales>>
    ELSE /\ chunk' = chunk + 1
         /\ sales' = sl
         /\ UNCHANGED <<spc, s_result>>

\* the end of one iteration that did not return: the next iteration, or
\* the end of the loop (lines 1571-1576) and the final return
NextChunk(sl) ==
    IF chunk + 1 >= max_chunks \/ FromBlock(chunk + 1) >= ToBlock(chunk + 1)
    THEN ScanFinalReturn(sl) /\ UNCHANGED <<chunk, sales>>
    ELSE /\ chunk' = chunk + 1
         /\ sales' = sl
         /\ UNCHANGED <<spc, s_result>>

\* the priced candidates an answer lists, as the sales they would make
ListedPriced(transfers) ==
    LET listed == SelectSeq(transfers,
                            LAMBDA tr : ~AddressRaises(tr) /\ IsCandidate(tr) /\ Priced(tr.price))
    IN [i \in 1..Len(listed) |-> [chunk |-> chunk, sale |-> ScanSale(listed[i])]]

\* one iteration of the loop of line 1571: the chunk's transfers and the
\* prices of its candidates arrive (lines 1581-1737)
ScanDecide(collected, unique_sales) ==
    IF collected = <<>>
    THEN NextChunk(sales)
    ELSE IF Len(unique_sales) >= s_n
    THEN /\ ScanReturn("early", FirstN(unique_sales, s_n))
         /\ UNCHANGED <<chunk, sales>>
    ELSE NextChunk(unique_sales)

ScanCollected(collected) == ScanDecide(collected, UniqueSales(SortSales(collected)))

ScanTransfers(transfers) ==
    IF \E i \in 1..Len(transfers) : AddressRaises(transfers[i])
    THEN ScanExcept /\ UNCHANGED <<chunk, sales>>
    ELSE ScanCollected(sales \o NewSales(transfers))

ScanChunkAnswer(answer) ==
    /\ s_priced' = FirstN(s_priced \o ListedPriced(answer.transfers), 2)
    /\ IF answer.transfers = <<>>
       THEN NextChunk(sales)
       ELSE ScanTransfers(Capped(SortTransfers(answer.transfers)))
    /\ UNCHANGED <<s_n, current_block, wvars, pvars, s_rest>>

ScanChunk ==
    /\ spc = "chunk"
    /\ \E answer \in ChunkAnswers(FromBlock(chunk), ToBlock(chunk)) : ScanChunkAnswer(answer)

SNext ==
    \/ \E answer \in CurrentBlockAnswers : GetCurrentBlock(answer)
    \/ ScanChunk

SpecScan == SInit /\ [][SNext]_vars

\* every awaited upstream call ends: _rpc_call gives each request 30 s
\* (line 99) and returns {} when it fails
SpecScanLive == SpecScan /\ WF_vars(SNext)

(***************************************************************************)
(* One chunk of fetch_last_n_sales: the candidates (lines 1593-1670).      *)
(***************************************************************************)
\* lines 1619-1670: the loop over the capped transfers
TransferCandidates(transfers) == SelectSeq(transfers, IsCandidate)

\* what the gather of line 1677 gives for one candidate: the exception
\* the call raised, or the pair it returned
PriceResults == {Raised, Result(0, FALSE), Result(1, FALSE), Result(2, TRUE)}

\* lines 1680-1712: zip(transfer_candidates, price_results); an exception
\* and a price of 0 are skipped, any other result makes the candidate's sale
RECURSIVE ZipSalesUntilFailure(_, _)
ZipSalesUntilFailure(candidates, results) ==
    IF candidates = <<>> \/ results = <<>> THEN <<>>
    ELSE IF Priced(Head(results))
    THEN <<ScanSale([Head(candidates) EXCEPT !.price = Head(results)])>>
           \o ZipSalesUntilFailure(Tail(candidates), Tail(results))
    ELSE <<>>

RECURSIVE ZipSales(_, _)
ZipSales(candidates, results) ==
    IF candidates = <<>> \/ results = <<>> THEN <<>>
    ELSE (IF Priced(Head(results))
          THEN <<ScanSale([Head(candidates) EXCEPT !.price = Head(results)])>>
          ELSE <<>>) \o ZipSales(Tail(candidates), Tail(results))

\* a non-empty answer to the chunk query is back
KInit ==
    /\ WInit
    /\ PIdle
    /\ AIdle
    /\ UIdle
    /\ NIdle
    /\ FIdle
    /\ IIdle
    /\ DIdle
    /\ CIdle
    /\ SIdle
    /\ HIdle
    /\ LIdle
    /\ k_pc = "answer"
    /\ k_transfers \in {a.transfers : a \in ChunkAnswers(7000, 10000)} \ {<<>>}
    /\ transfer_candidates = <<>>
    /\ price_results = <<>>
    /\ k_sales = <<>>

\* lines 1593-1673: sort by block number, cap, then keep the candidates;
\* line 1620 raises at a transfer without an address; the prices are
\* gathered if there is a candidate
SelectCandidates ==
    /\ k_pc = "answer"
    /\ LET kept == Capped(SortTransfers(k_transfers))
       IN IF \E i \in 1..Len(kept) : AddressRaises(kept[i])
          THEN /\ k_pc' = "raised"
               /\ transfer_candidates' = <<>>
          ELSE /\ transfer_candidates' = TransferCandidates(kept)
               /\ k_pc' = IF transfer_candidates' = <<>> THEN "done" ELSE "prices"
    /\ UNCHANGED <<k_transfers, price_results, k_sales, wvars, pvars, k_rest>>

\* lines 1677-1712: the gather returns one result per candidate, in the
\* order of the candidates
PricesGathered(results) ==
    /\ price_results' = results
    /\ k_sales' = ZipSales(transfer_candidates, results)
    /\ k_pc' = "done"
    /\ UNCHANGED <<k_transfers, transfer_candidates, wvars, pvars, k_rest>>

GatherPrices ==
    /\ k_pc = "prices"
    /\ \E results \in [1..Len(transfer_candidates) -> PriceResults] : PricesGathered(results)

KNext ==
    \/ SelectCandidates
    \/ GatherPrices

SpecCandidates == KInit /\ [][KNext]_vars

(***************************************************************************)
(* handle_alchemy_webhook as a whole (bot.py lines 628-710).               *)
(***************************************************************************)
\* bound: the number of events in the activity array of one payload
MaxActivity == 2

\* one element of the activity array: an event with its transactionHash, or
\* a JSON value that is no object
WebhookEvent(hash, e) == [dict |-> TRUE, hash |-> hash, event |-> e]
NotAnObject == [dict |-> FALSE, hash |-> EmptyHash, event |-> NoEvent]

ActivityShapes ==
    {WebhookEvent(<<1, "mixed">>, e) : e \in EventShapes}
      \cup {WebhookEvent(EmptyHash, CHOOSE e \in EventShapes : ~IsMintOrBurn(e)), NotAnObject}

\* the bodies of a request: no JSON, a JSON array, or an object with an
\* activity array and a top-level type
WebhookBodies ==
    {[kind |-> "unparseable"], [kind |-> "array"]}
      \cup {[kind |-> "object", activity |-> a, top |-> WebhookEvent(<<2, "lower">>, e)] :
               a \in SeqsUpTo(ActivityShapes, MaxActivity), e \in EventShapes}

\* the X-Alchemy-Signature header, "" when absent (line 645)
WebhookRequests ==
    [signature : {"", "secret", "wrong"}, body : WebhookBodies]

\* lines 644-648
AuthorizedIfHeaderAbsent(req) ==
    WEBHOOK_SECRET = "" \/ req.signature = WEBHOOK_SECRET \/ req.signature = ""
Authorized(req) == WEBHOOK_SECRET = "" \/ req.signature = WEBHOOK_SECRET

\* lines 660-669
EventsToProcess(data) ==
    IF data.activity # <<>> THEN data.activity
    ELSE IF data.top.event.type = "NFT_ACTIVITY" THEN <<data.top>> ELSE <<>>

\* lines 678-699: the events a task is created for
Schedulable(we) ==
    /\ we.event.type = "NFT_ACTIVITY"
    /\ we.hash # EmptyHash
    /\ we.event.contract = NFT_CONTRACT_ADDRESS

\* lines 676-702: the tasks created before the loop ends or raises at an
\* element that is no object
RECURSIVE CreateTasks(_)
CreateTasks(events) ==
    IF events = <<>> \/ ~Head(events).dict THEN <<>>
    ELSE (IF Schedulable(Head(events)) THEN <<<<Head(events).hash, Head(events).event>>>>
          ELSE <<>>) \o CreateTasks(Tail(events))

\* a request arrives at a bot configured with or without a secret
HInit ==
    /\ WInit
    /\ PIdle
    /\ AIdle
    /\ UIdle
    /\ KIdle
    /\ NIdle
    /\ FIdle
    /\ IIdle
    /\ DIdle
    /\ CIdle
    /\ SIdle
    /\ LIdle
    /\ WEBHOOK_SECRET \in {"", "secret"}
    /\ h_request = NoRequest
    /\ h_response = 0
    /\ h_parsed = FALSE
    /\ h_scheduled = <<>>

\* the handler from the request to its response
HandleRequest(req) ==
    /\ h_response = 0
    /\ h_request' = req
    /\ IF ~Authorized(req)
       THEN /\ h_response' = 401
            /\ h_parsed' = FALSE
            /\ h_scheduled' = <<>>
       ELSE /\ h_response' = 200
            /\ h_parsed' = TRUE
            /\ h_scheduled' = IF req.body.kind = "object"
                              THEN CreateTasks(EventsToProcess(req.body))
                              ELSE <<>>
    /\ UNCHANGED <<WEBHOOK_SECRET, wvars, pvars, h_rest>>

HNext == \E req \in WebhookRequests : HandleRequest(req)

SpecHandler == HInit /\ [][HNext]_vars

(***************************************************************************)
(* The lastsale command (bot.py lines 755-981).                            *)
(***************************************************************************)
\* results of fetch_last_n_sales(n=1) within 45 seconds: a list, or no
\* result in time (lines 766-774)
FetchResults ==
    {[timeout |-> TRUE, sales |-> <<>>], [timeout |-> FALSE, sales |-> <<>>]}
      \cup {[timeout |-> FALSE, sales |-> <<ScanSale(tr)>>] :
               tr \in {x \in ChunkTransferShapes(7000, 10000) :
                          ~AddressRaises(x) /\ IsCandidate(x) /\ Priced(x.price)}}

\* what one awaited call to Discord does: it succeeds, raises
\* discord.HTTPException, or raises another exception
SendOutcomes == {"ok", "HTTPException", "Exception"}

Message(kind, with_file) == [kind |-> kind, with_file |-> with_file]

\* the command is invoked, before or after on_ready has set sales_fetcher
LInit ==
    /\ WInit
    /\ PIdle
    /\ AIdle
    /\ UIdle
    /\ KIdle
    /\ NIdle
    /\ FIdle
    /\ IIdle
    /\ DIdle
    /\ CIdle
    /\ SIdle
    /\ HIdle
    /\ l_pc = "defer"
    /\ sales_fetcher \in BOOLEAN
    /\ l_sale = NoSale
    /\ l_pending = NoMessage
    /\ l_exc = "none"
    /\ l_sent = <<>>

\* a followup.send is awaited with this message
LAwaitSend(msg) ==
    /\ l_pc' = "send"
    /\ l_pending' = msg

\* lines 968-980: the outer except clause awaits the send of the error text
LOuterExcept(e) ==
    /\ l_pc' = "error_send"
    /\ l_exc' = e
    /\ l_pending' = Message("error_text", FALSE)

\* line 758, outside the try: an exception of defer escapes the command
LDefer(outcome) ==
    /\ l_pc = "defer"
    /\ IF outcome # "ok"
       THEN l_pc' = "done" /\ l_exc' = outcome /\ UNCHANGED l_pending
       ELSE IF ~sales_fetcher
       THEN LAwaitSend(Message("not_ready", FALSE)) /\ UNCHANGED l_exc
       ELSE l_pc' = "fetch" /\ UNCHANGED <<l_pending, l_exc>>
    /\ UNCHANGED <<sales_fetcher, l_sale, l_sent, wvars, pvars, l_rest>>

\* lines 765-780
LFetch(result) ==
    /\ l_pc = "fetch"
    /\ IF result.timeout
       THEN LAwaitSend(Message("timed_out", FALSE)) /\ UNCHANGED l_sale
       ELSE IF result.sales = <<>>
       THEN LAwaitSend(Message("no_sales", FALSE)) /\ UNCHANGED l_sale
       ELSE l_pc' = "media" /\ l_sale' = result.sales[1] /\ UNCHANGED l_pending
    /\ UNCHANGED <<sales_fetcher, l_exc, l_sent, wvars, pvars, l_rest>>

\* lines 782-926: images are resolved and downloaded; file is set or not
LMedia(with_file) ==
    /\ l_pc = "media"
    /\ LAwaitSend(Message("sale", with_file))
    /\ UNCHANGED <<sales_fetcher, l_sale, l_exc, l_sent, wvars, pvars, l_rest>>

\* the awaited followup.send returns or raises (lines 761, 772, 779, 929-951,
\* 963); an HTTPException of the send with file is answered by a send
\* without file, every other exception reaches the outer except clause
LSend(outcome) ==
    /\ l_pc = "send"
    /\ IF outcome = "ok"
       THEN l_sent' = Append(l_sent, l_pending) /\ l_pc' = "done"
                /\ UNCHANGED <<l_pending, l_exc>>
       ELSE IF outcome = "HTTPException" /\ l_pending = Message("sale", TRUE)
       THEN LAwaitSend(Message("sale", FALSE)) /\ UNCHANGED <<l_sent, l_exc>>
       ELSE LOuterExcept(outcome) /\ UNCHANGED l_sent
    /\ UNCHANGED <<sales_fetcher, l_sale, wvars, pvars, l_rest>>

\* lines 970-980: the error text, then a generic text, then nothing
LErrorSend(outcome) ==
    /\ l_pc \in {"error_send", "generic_send"}
    /\ IF outcome = "ok"
       THEN l_sent' = Append(l_sent, l_pending) /\ l_pc' = "done" /\ UNCHANGED l_pending
       ELSE IF l_pc = "error_send"
       THEN /\ l_pc' = "generic_send"
            /\ l_pending' = Message("generic_error", FALSE)
            /\ UNCHANGED l_sent
       ELSE l_pc' = "done" /\ UNCHANGED <<l_pending, l_sent>>
    /\ UNCHANGED <<sales_fetcher, l_sale, l_exc, wvars, pvars, l_rest>>

LNext ==
    \/ \E outcome \in SendOutcomes : LDefer(outcome)
    \/ \E result \in FetchResults : LFetch(result)
    \/ \E with_file \in BOOLEAN : LMedia(with_file)
    \/ \E outcome \in SendOutcomes : LSend(outcome)
    \/ \E outcome \in SendOutcomes : LErrorSend(outcome)

SpecLastSale == LInit /\ [][LNext]_vars

(***************************************************************************)
(* The attachment of a notification (bot.py lines 387-505; lines 798-916   *)
(* of the lastsale command are the same code).                             *)
(***************************************************************************)
\* bound: the number of URLs in urls_to_try (the embed URL, the pngUrl of
\* the metadata, image_urls[1], the URL without its f_png transformation)
MaxUrls == 3

\* the token's metadata, by what lines 473-478 look at: the call raises,
\* {} , an "image" that is no object, or an object whose originalUrl is
\* absent or a string that contains '/ipfs/' or not and '.mp4' or 'video'
\* or not
OriginalUrl(t, ipfs, video) == [t |-> t, ipfs |-> ipfs, video |-> video]
AttachmentMetadata ==
    {OriginalUrl(t, FALSE, FALSE) : t \in {"raises", "empty", "no_object", "absent"}}
      \cup {OriginalUrl("str", i, v) : i \in BOOLEAN, v \in BOOLEAN}

\* download_image and extract_video_frame return bytes or None; "raises"
\* stands for an exception of the call
CallOutcomes == {"data", "None", "raises"}

\* line 478
IsIpfsVideo(md) == md.t = "str" /\ md.ipfs /\ md.video

\* a sale with token ids and image URLs: lines 392-429
AInit ==
    /\ WInit
    /\ PIdle
    /\ UIdle
    /\ KIdle
    /\ NIdle
    /\ FIdle
    /\ IIdle
    /\ DIdle
    /\ CIdle
    /\ SIdle
    /\ HIdle
    /\ LIdle
    /\ a_pc = "download"
    /\ is_cloudinary \in BOOLEAN
    /\ urls_to_try \in 1..MaxUrls
    /\ ~is_cloudinary => urls_to_try = 1
    /\ a_downloads = <<>>
    /\ a_metadata \in AttachmentMetadata
    /\ a_frame = "not_called"
    /\ a_file = "None"

\* lines 469-470: after the loop
AfterDownloads(got_data) ==
    IF ~got_data /\ is_cloudinary THEN "metadata" ELSE "done"

\* lines 432-466: one download of the loop; the first that returns data
\* makes the file and ends the loop
DownloadImage(outcome) ==
    /\ a_pc = "download"
    /\ a_downloads' = Append(a_downloads, outcome)
    /\ IF outcome = "data"
       THEN /\ a_file' = "image"
            /\ a_pc' = AfterDownloads(TRUE)
       ELSE /\ a_file' = a_file
            /\ a_pc' = IF Len(a_downloads') < urls_to_try THEN "download"
                       ELSE AfterDownloads(FALSE)
    /\ UNCHANGED <<is_cloudinary, urls_to_try, a_metadata, a_frame, wvars, pvars, a_rest>>

\* lines 471-500: the metadata is back; the frame is extracted from a
\* top-level originalUrl that is an IPFS video
MetadataForFrame ==
    /\ a_pc = "metadata"
    /\ a_pc' = IF IsIpfsVideo(a_metadata) THEN "extract" ELSE "done"
    /\ UNCHANGED <<is_cloudinary, urls_to_try, a_downloads, a_metadata, a_frame, a_file,
                   wvars, pvars, a_rest>>

\* lines 481-491 and 499-500: extract_video_frame is over
ExtractVideoFrame(outcome) ==
    /\ a_pc = "extract"
    /\ a_frame' = outcome
    /\ a_file' = IF outcome = "data" THEN "frame" ELSE a_file
    /\ a_pc' = "done"
    /\ UNCHANGED <<is_cloudinary, urls_to_try, a_downloads, a_metadata, wvars, pvars, a_rest>>

ANext ==
    \/ \E outcome \in CallOutcomes : DownloadImage(outcome)
    \/ MetadataForFrame
    \/ \E outcome \in CallOutcomes : ExtractVideoFrame(outcome)

SpecAttachment == AInit /\ [][ANext]_vars

(***************************************************************************)
(* SalesFetcher.get_nft_metadata and its LRU cache (sales_fetcher.py       *)
(* lines 234-270).                                                         *)
(***************************************************************************)
\* bound: stands for MAX_METADATA_CACHE_SIZE = 1000 of line 27
MAX_METADATA_CACHE_SIZE == 2
\* bound: token ids are 1..MaxTokenId
MaxTokenId == 3

\* the spellings of token ids a call is made with
MetadataTokens ==
    {<<"dec", k>> : k \in 1..MaxTokenId} \cup {<<"hex", 1>>, <<"badhex", 0>>}

\* lines 246-250: the cache key of a token id that int() accepts
CacheKey(token) == token[2]

\* what _nft_api_call returns: the metadata object, or {} (line 261)
ApiResults == {"metadata", "empty"}

CachedKeys == {metadata_cache[i][1] : i \in 1..Len(metadata_cache)}
CachedValue(key) ==
    metadata_cache[CHOOSE i \in 1..Len(metadata_cache) : metadata_cache[i][1] = key][2]

\* OrderedDict.move_to_end(key), line 253
MoveToEnd(cache, key) ==
    SelectSeq(cache, LAMBDA item : item[1] # key)
      \o SelectSeq(cache, LAMBDA item : item[1] = key)

\* OrderedDict item assignment, line 265: a new key goes to the end, an
\* existing key keeps its place and takes the new value
SetItem(cache, key, value) ==
    IF \E i \in 1..Len(cache) : cache[i][1] = key
    THEN [i \in 1..Len(cache) |-> IF cache[i][1] = key THEN <<key, value>> ELSE cache[i]]
    ELSE Append(cache, <<key, value>>)

\* lines 267-268: popitem(last=False) while the cache is over its limit
RECURSIVE EvictOverLimitByTwo(_)
EvictOverLimitByTwo(cache) ==
    IF Len(cache) > MAX_METADATA_CACHE_SIZE + 1 THEN EvictOverLimitByTwo(Tail(cache)) ELSE cache

RECURSIVE Evict(_)
Evict(cache) ==
    IF Len(cache) > MAX_METADATA_CACHE_SIZE THEN Evict(Tail(cache)) ELSE cache

CInit ==
    /\ WInit
    /\ PIdle
    /\ AIdle
    /\ UIdle
    /\ KIdle
    /\ NIdle
    /\ FIdle
    /\ IIdle
    /\ DIdle
    /\ SIdle
    /\ HIdle
    /\ LIdle
    /\ CIdle

\* lines 246-261: a call starts; it raises on a token id that is no hex
\* number, returns the cached metadata, or awaits the API
GetNftMetadata(c, token) ==
    /\ m_pc[c] \in {"none", "done"}
    /\ m_token' = [m_token EXCEPT ![c] = token]
    /\ m_cached' = [m_cached EXCEPT ![c] = token[1] # "badhex" /\ CacheKey(token) \in CachedKeys]
    /\ IF token[1] = "badhex"
       THEN /\ m_pc' = [m_pc EXCEPT ![c] = "done"]
            /\ m_result' = [m_result EXCEPT ![c] = "raised"]
            /\ UNCHANGED metadata_cache
       ELSE IF CacheKey(token) \in CachedKeys
       THEN /\ metadata_cache' = MoveToEnd(metadata_cache, CacheKey(token))
            /\ m_pc' = [m_pc EXCEPT ![c] = "done"]
            /\ m_result' = [m_result EXCEPT ![c] = CachedValue(CacheKey(token))]
       ELSE /\ m_pc' = [m_pc EXCEPT ![c] = "request"]
            /\ m_result' = [m_result EXCEPT ![c] = "none"]
            /\ UNCHANGED metadata_cache
    /\ UNCHANGED <<wvars, pvars, c_rest>>

\* a variant without the test of line 264: every result is stored
ApiReturnStoresAll(c, metadata) ==
    /\ m_pc[c] = "request"
    /\ metadata_cache' = Evict(SetItem(metadata_cache, CacheKey(m_token[c]), metadata))
    /\ m_pc' = [m_pc EXCEPT ![c] = "done"]
    /\ m_result' = [m_result EXCEPT ![c] = metadata]
    /\ UNCHANGED <<m_token, m_cached, wvars, pvars, c_rest>>

\* lines 261-270: the API call returns; a non-empty result is stored and
\* the cache is cut back to its limit
ApiReturn(c, metadata) ==
    /\ m_pc[c] = "request"
    /\ metadata_cache' = IF metadata # "empty"
                         THEN Evict(SetItem(metadata_cache, CacheKey(m_token[c]), metadata))
                         ELSE metadata_cache
    /\ m_pc' = [m_pc EXCEPT ![c] = "done"]
    /\ m_result' = [m_result EXCEPT ![c] = metadata]
    /\ UNCHANGED <<m_token, m_cached, wvars, pvars, c_rest>>

CNext ==
    \/ \E c \in Calls, token \in MetadataTokens : GetNftMetadata(c, token)
    \/ \E c \in Calls, metadata \in ApiResults : ApiReturn(c, metadata)

SpecCache == CInit /\ [][CNext]_vars

(***************************************************************************)
(* SalesFetcher.download_image (sales_fetcher.py lines 1373-1463).         *)
(***************************************************************************)
\* lines 1412-1413
max_size == 8 * 1024 * 1024
chunk_size == 1024 * 1024
\* line 1427
MinImageBytes == 100

\* Content-Type headers: <<word, case>> is a header that contains the word
\* in that letter case; <<"", "lower">> is the absent header (line 1408)
ContentTypes ==
    {<<"image", "lower">>, <<"video", "lower">>, <<"video", "mixed">>, <<"", "lower">>}

\* the first bytes of a body: a PNG signature, 00 00 00 18 'ftyp', the EBML
\* signature 1a 45 df a3, or an 'ftyp' box of another size
Magics == {"png", "ftyp18", "ebml", "ftyp20"}

BodySizes == {0, MinImageBytes - 1, MinImageBytes, chunk_size, max_size, max_size + 1,
              max_size + chunk_size + 1}

Responses ==
    [status : {200, 400, 404, 500}, content_type : ContentTypes,
     magic : Magics, size : BodySizes]

\* what the code looks for in the URL: 'cloudinary.com' (line 1395), a video
\* extension (line 1438), or neither
ImageUrls == {"plain", "cloudinary", "video_ext"}

\* lines 1422, 1433: 'video' in content_type.lower()
ContainsVideoCaseSensitive(ct) == ct = <<"video", "lower">>
ContainsVideo(ct) == ct[1] = "video"

\* line 1435: the two signatures the code tests image_data against
StartsWithVideoMagic(magic) == magic \in {"ftyp18", "ebml"}

\* lines 1431-1438
IsVideoFileByContentType(ct, magic, url) == ContainsVideo(ct)
IsVideoFile(ct, magic, url) ==
    ContainsVideo(ct) \/ StartsWithVideoMagic(magic) \/ url = "video_ext"

\* the call is made: line 1402 awaits the response
DInit ==
    /\ WInit
    /\ PIdle
    /\ AIdle
    /\ UIdle
    /\ KIdle
    /\ NIdle
    /\ FIdle
    /\ IIdle
    /\ SIdle
    /\ HIdle
    /\ LIdle
    /\ CIdle
    /\ d_pc = "get"
    /\ image_url \in ImageUrls
    /\ d_response = NoResponse
    /\ image_data = 0
    /\ d_result = ReturnedNone

DReturn(result) ==
    /\ d_pc' = "done"
    /\ d_result' = result

\* lines 1458-1463: a timeout or any other exception of an await
DownloadRaises ==
    /\ d_pc \in {"get", "read"}
    /\ DReturn(ReturnedNone)
    /\ UNCHANGED <<image_url, d_response, image_data, wvars, pvars, d_rest>>

\* lines 1401-1408 and 1447-1457: the response arrives
SessionGet(response) ==
    /\ d_pc = "get"
    /\ d_response' = response
    /\ IF response.status = 200
       THEN d_pc' = "read" /\ UNCHANGED d_result
       ELSE DReturn(ReturnedNone)
    /\ UNCHANGED <<image_url, image_data, wvars, pvars, d_rest>>

\* lines 1421-1446: the checks on the complete body
Validate(ct, magic, url, size) ==
    IF ContainsVideo(ct) THEN ReturnedNone
    ELSE IF size < MinImageBytes THEN ReturnedNone
    ELSE IF IsVideoFile(ct, magic, url) THEN ReturnedNone
    ELSE [bytes |-> TRUE, size |-> size]

\* lines 1415-1419: one turn of the async for, then the checks when the
\* body has ended
ReadChunk ==
    /\ d_pc = "read"
    /\ LET left == d_response.size - image_data
           got == IF left < chunk_size THEN left ELSE chunk_size
       IN IF left = 0
          THEN /\ DReturn(Validate(d_response.content_type, d_response.magic,
                                   image_url, image_data))
               /\ UNCHANGED image_data
          ELSE /\ image_data' = image_data + got
               /\ IF image_data + got > max_size
                  THEN DReturn(ReturnedNone)
                  ELSE UNCHANGED <<d_pc, d_result>>
    /\ UNCHANGED <<image_url, d_response, wvars, pvars, d_rest>>

DNext ==
    \/ \E response \in Responses : SessionGet(response)
    \/ ReadChunk
    \/ DownloadRaises

SpecDownload == DInit /\ [][DNext]_vars

(***************************************************************************)
(* SalesFetcher.fetch_nft_images (sales_fetcher.py lines 590-925).         *)
(***************************************************************************)
\* line 614 has batch_size = 5 and the default of max_images is 20; the
\* model gathers batches of batch_size of up to MaxImgTokens tokens
batch_size == 2
MaxImgTokens == 3

\* a JSON value where the code expects a URL: absent, a non-empty string,
\* or a value of another type (a non-zero number)
NoneV == [t |-> "none", u |-> NoUrl]
Str(u) == [t |-> "str", u |-> u]
IntV == [t |-> "int", u |-> NoUrl]

\* a JSON value where the code expects an image object: absent, a string,
\* a number, or an object with the four URL fields and contentType
\* ("" absent, "image", "video", or "int" for a value that is no string)
Val(v) ==
    [t |-> v.t, u |-> v.u, cachedUrl |-> NoneV, originalUrl |-> NoneV,
     pngUrl |-> NoneV, thumbnailUrl |-> NoneV, contentType |-> ""]
Dict(cached, original, png, thumb, ct) ==
    [t |-> "dict", u |-> NoUrl, cachedUrl |-> cached, originalUrl |-> original,
     pngUrl |-> png, thumbnailUrl |-> thumb, contentType |-> ct]
Leaf(v) == [t |-> v.t, u |-> v.u]

\* the "media" field: absent, or a list whose from_urls entry is an object with
\* gateway, raw and contentType, or a string
NoMedia == [t |-> "none", item |-> [t |-> "dict", gateway |-> Val(NoneV), raw |-> Val(NoneV), contentType |-> ""]]
Media(gateway, raw, ct) ==
    [t |-> "list", item |-> [t |-> "dict", gateway |-> gateway, raw |-> raw, contentType |-> ct]]
MediaOfString ==
    [t |-> "list", item |-> [t |-> "str", gateway |-> Val(NoneV), raw |-> Val(NoneV), contentType |-> ""]]

\* a metadata document: "image", "media" and "metadata"."image"
Doc(image, media, meta_image) == [image |-> image, media |-> media, meta_image |-> meta_image]

Cached == Url("cachedUrl", "https", FALSE, FALSE, TRUE, 40, 0)
OriginalStill == Url("originalUrl", "http", FALSE, FALSE, FALSE, 40, 0)
OriginalVideo == Url("originalUrl", "https", TRUE, TRUE, FALSE, 40, 0)
GatewayVideo == Url("gateway", "https", TRUE, TRUE, FALSE, 40, 0)
GatewayIpfs == Url("gateway", "ipfs", FALSE, FALSE, FALSE, 46, 9)
RawIpfsPath == Url("raw", "ipfs_path", FALSE, FALSE, FALSE, 60, 0)
RawIpfsLong == Url("raw", "ipfs", FALSE, FALSE, FALSE, 1970, 0)
Thumbnail == Url("thumbnailUrl", "https", FALSE, FALSE, FALSE, 40, 12)
Png == Url("pngUrl", "https", FALSE, FALSE, FALSE, 40, 0)
MetaLong == Url("metadata.image", "https", FALSE, FALSE, FALSE, 1993, 5)
MetaFtp == Url("metadata.image", "ftp", FALSE, FALSE, FALSE, 40, 0)
MetaIpfs == Url("metadata.image", "ipfs", FALSE, FALSE, FALSE, 46, 0)

DocShapes ==
    { \* a still image on the CDN
      Doc(Dict(Str(Cached), Str(OriginalStill), Str(Png), Str(Thumbnail), "image"),
          NoMedia, Val(NoneV)),
      \* a video whose object offers a thumbnail
      Doc(Dict(Str(Cached), Str(OriginalVideo), NoneV, Str(Thumbnail), "video"),
          NoMedia, Val(NoneV)),
      \* a video in media[0].gateway, an object that offers a thumbnail
      Doc(Val(NoneV),
          Media(Dict(NoneV, Str(OriginalVideo), NoneV, Str(Thumbnail), "video"), Val(NoneV), "video"),
          Val(NoneV)),
      \* a video with a top-level thumbnail and a string gateway
      Doc(Dict(Str(Cached), NoneV, NoneV, Str(Thumbnail), "video"),
          Media(Val(Str(GatewayVideo)), Val(NoneV), "video"), Val(NoneV)),
      \* a video with a string gateway whose raw object offers a PNG
      Doc(Val(NoneV),
          Media(Val(Str(GatewayVideo)), Dict(NoneV, NoneV, Str(Png), NoneV, ""), ""),
          Val(NoneV)),
      \* a media entry that is a string
      Doc(Val(NoneV), MediaOfString, Val(Str(MetaLong))),
      \* an ipfs:// gateway with a query string
      Doc(Val(NoneV), Media(Val(Str(GatewayIpfs)), Val(NoneV), "image"), Val(NoneV)),
      \* no gateway, raw strings
      Doc(Val(NoneV), Media(Val(NoneV), Val(Str(RawIpfsPath)), ""), Val(NoneV)),
      Doc(Val(NoneV), Media(Val(NoneV), Val(Str(RawIpfsLong)), ""), Val(NoneV)),
      \* only metadata.image: long with a query string, not http, a number,
      \* an object
      Doc(Val(NoneV), NoMedia, Val(Str(MetaLong))),
      Doc(Val(NoneV), NoMedia, Val(Str(MetaFtp))),
      Doc(Val(NoneV), NoMedia, Val(IntV)),
      Doc(Val(NoneV), NoMedia, Dict(NoneV, Str(OriginalStill), NoneV, NoneV, "")),
      \* a thumbnail at the top level and an ipfs:// metadata.image
      Doc(Dict(NoneV, NoneV, NoneV, Str(Thumbnail), "image"), NoMedia, Val(Str(MetaIpfs))),
      \* a thumbnailUrl that is a number
      Doc(Dict(Str(Cached), NoneV, NoneV, IntV, "image"), NoMedia, Val(NoneV)),
      \* a PNG only in the gateway object
      Doc(Val(NoneV), Media(Dict(NoneV, NoneV, Str(Png), NoneV, ""), Val(NoneV), ""),
          Val(NoneV)),
      \* nothing
      Doc(Val(NoneV), NoMedia, Val(NoneV)) }

\* what asyncio.gather gives for one token (line 621): an exception, a
\* falsy result, or a document
GatherResults ==
    {[t |-> "exception", doc |-> Doc(Val(NoneV), NoMedia, Val(NoneV))],
     [t |-> "empty", doc |-> Doc(Val(NoneV), NoMedia, Val(NoneV))]}
      \cup {[t |-> "doc", doc |-> d] : d \in DocShapes}

Given(v) == v.t \in {"str", "int"}
IsStr(v) == v.t = "str"
\* x[:n] in a log line, evaluated when x is truthy
SliceRaises(v) == v.t = "int"
\* "video" in x.lower(), evaluated on a contentType
LowerRaises(ct) == ct = "int"

Selection(url, cloudinary_url, raised) ==
    [url |-> url, cloudinary_url |-> cloudinary_url, raised |-> raised]

\* lines 638-708: the top-level "image"
TopImage(image) ==
    IF image.t # "dict" THEN Selection(NoneV, NoneV, FALSE)
    ELSE LET cached_url == image.cachedUrl
             original_url == image.originalUrl
             png_url == image.pngUrl
             thumbnail_url == image.thumbnailUrl
             is_video == \/ IsStr(original_url) /\ original_url.u.video
                         \/ image.contentType = "video"
             from_urls == IF IsStr(cached_url)
                      THEN (IF is_video \/ cached_url.u.video THEN NoneV ELSE cached_url)
                      ELSE IF IsStr(original_url)
                      THEN (IF original_url.u.video THEN NoneV ELSE original_url)
                      ELSE NoneV
             chosen == IF Given(from_urls) THEN from_urls
                       ELSE IF IsStr(thumbnail_url) THEN thumbnail_url
                       ELSE IF IsStr(png_url) THEN png_url
                       ELSE NoneV
         IN Selection(chosen, NoneV,
                      \/ LowerRaises(image.contentType)
                      \/ SliceRaises(original_url)
                      \/ SliceRaises(png_url)
                      \/ SliceRaises(thumbnail_url))

\* lines 755-805: media[0].gateway is an object
GatewayDict(g, is_video, s) ==
    IF IsStr(g.cachedUrl) THEN Selection(g.cachedUrl, s.cloudinary_url, s.raised)
    ELSE IF IsStr(g.originalUrl) THEN Selection(g.originalUrl, s.cloudinary_url, s.raised)
    ELSE IF IsStr(g.pngUrl) THEN Selection(s.url, g.pngUrl, s.raised)
    ELSE IF IsStr(g.thumbnailUrl)
    THEN Selection(s.url, IF Given(s.cloudinary_url) THEN s.cloudinary_url ELSE g.thumbnailUrl,
                   s.raised)
    ELSE Selection(IF Given(g.originalUrl) THEN g.originalUrl ELSE NoneV,
                   s.cloudinary_url, s.raised)

\* lines 806-820: media[0].gateway is no object
GatewayString(item, s) ==
    LET g == Leaf(item.gateway)
        raw == item.raw
    IN IF Given(g) /\ ~SliceRaises(g) /\ (item.contentType = "video" \/ g.u.mp4)
          /\ raw.t = "dict" /\ Given(raw.pngUrl)
       THEN Selection(raw.pngUrl, s.cloudinary_url, s.raised)
       ELSE IF Given(g) /\ ~SliceRaises(g) /\ (item.contentType = "video" \/ g.u.mp4)
               /\ raw.t = "dict" /\ Given(raw.thumbnailUrl)
       THEN Selection(raw.thumbnailUrl, s.cloudinary_url, s.raised)
       ELSE Selection(g, s.cloudinary_url, s.raised \/ SliceRaises(g))

\* lines 822-845: the fallback to media[0].raw
RawFallback(raw, is_video, s) ==
    IF Given(s.url) THEN s
    ELSE IF raw.t # "dict" THEN Selection(Leaf(raw), s.cloudinary_url, s.raised)
    ELSE LET r == s.raised \/ (~is_video /\ LowerRaises(raw.contentType))
         IN IF Given(raw.cachedUrl)
            THEN Selection(raw.cachedUrl, s.cloudinary_url, r \/ SliceRaises(raw.cachedUrl))
            ELSE IF Given(raw.pngUrl) THEN Selection(raw.pngUrl, s.cloudinary_url, r)
            ELSE IF Given(raw.thumbnailUrl) THEN Selection(raw.thumbnailUrl, s.cloudinary_url, r)
            ELSE Selection(raw.originalUrl, s.cloudinary_url, r)

\* lines 716-845: media[0]
MediaItem(media, s) ==
    IF media.t = "none" THEN s
    ELSE IF media.item.t # "dict" THEN Selection(s.url, s.cloudinary_url, TRUE)
    ELSE LET item == media.item
             g == item.gateway
             raw == item.raw
             logged == \/ g.t = "dict" /\ (SliceRaises(g.pngUrl) \/ SliceRaises(g.thumbnailUrl))
                       \/ raw.t = "dict" /\ (SliceRaises(raw.pngUrl) \/ SliceRaises(raw.thumbnailUrl))
                       \/ LowerRaises(item.contentType)
             item_video == item.contentType = "video"
             is_video == item_video \/ (g.t = "dict" /\ g.contentType = "video")
             s1 == Selection(s.url, s.cloudinary_url,
                             \/ s.raised
                             \/ logged
                             \/ g.t = "dict" /\ ~item_video /\ LowerRaises(g.contentType))
             s2 == IF g.t = "dict" THEN GatewayDict(g, is_video, s1) ELSE GatewayString(item, s1)
         IN RawFallback(raw, is_video, s2)

\* lines 847-870: metadata.image
MetadataImage(meta_image, s) ==
    IF Given(s.url) THEN s
    ELSE IF meta_image.t # "dict" THEN Selection(Leaf(meta_image), s.cloudinary_url, s.raised)
    ELSE IF Given(meta_image.cachedUrl)
    THEN Selection(meta_image.cachedUrl, s.cloudinary_url,
                   s.raised \/ SliceRaises(meta_image.cachedUrl))
    ELSE IF Given(meta_image.pngUrl)
    THEN Selection(meta_image.pngUrl, s.cloudinary_url, s.raised \/ SliceRaises(meta_image.pngUrl))
    ELSE IF Given(meta_image.thumbnailUrl)
    THEN Selection(meta_image.thumbnailUrl, s.cloudinary_url,
                   s.raised \/ SliceRaises(meta_image.thumbnailUrl))
    ELSE Selection(meta_image.originalUrl, s.cloudinary_url, s.raised)

\* lines 872-876: the stored fallback
FinalFallback(s) ==
    IF ~Given(s.url) /\ Given(s.cloudinary_url)
    THEN Selection(s.cloudinary_url, s.cloudinary_url, s.raised)
    ELSE s

\* lines 633-876: the image_url chosen for one document
SelectImageUrl(doc) ==
    LET top == TopImage(doc.image)
    IN IF Given(top.url) /\ top.url.u.cdn THEN top
       ELSE FinalFallback(MetadataImage(doc.meta_image, MediaItem(doc.media, top)))

\* the number of characters of a scheme prefix
PrefixLen(scheme) ==
    CASE scheme = "https" -> 8
      [] scheme = "http" -> 7
      [] scheme = "ipfs" -> 7
      [] scheme = "ipfs_path" -> 5
      [] scheme = "ftp" -> 6
      [] OTHER -> 0
UrlLen(u) == PrefixLen(u.scheme) + u.body + u.query

\* lines 885-894: "ipfs://<hash>" becomes "https://cloudflare-ipfs.com/ipfs/
\* <hash>", and "ipfs/<a>/ipfs/<b>" gets "https://cloudflare-ipfs.com/" in
\* front
RewriteIpfs(u) ==
    IF u.scheme = "ipfs" THEN [u EXCEPT !.scheme = "https", !.body = @ + 25]
    ELSE IF u.scheme = "ipfs_path" THEN [u EXCEPT !.scheme = "https", !.body = @ + 25]
    ELSE u

\* lines 897-898
StripQueryNever(u) == u
StripQuery(u) == [u EXCEPT !.query = 0]

\* lines 903-905
MaxUrlLen == 2000
Truncate(u) ==
    IF UrlLen(u) > MaxUrlLen
    THEN IF PrefixLen(u.scheme) + u.body >= MaxUrlLen
         THEN [u EXCEPT !.body = MaxUrlLen - PrefixLen(u.scheme), !.query = 0]
         ELSE [u EXCEPT !.query = MaxUrlLen - PrefixLen(u.scheme) - u.body]
    ELSE u

\* lines 883-915: what is appended for the chosen value, NoUrl if nothing
Appended(v) ==
    IF ~IsStr(v) THEN NoUrl
    ELSE LET u == StripQuery(RewriteIpfs(v.u))
         IN IF u.scheme \in {"http", "https"} THEN Truncate(u) ELSE NoUrl

\* lines 623-915 for the results of one gather
RECURSIVE ProcessResults(_, _)
ProcessResults(results, acc) ==
    IF results = <<>> THEN acc
    ELSE LET result == Head(results)
             s == SelectImageUrl(result.doc)
             a == IF result.t = "doc" THEN Appended(s.url) ELSE NoUrl
         IN ProcessResults(Tail(results),
                [picked |-> Append(acc.picked, a),
                 urls |-> IF a = NoUrl THEN acc.urls ELSE Append(acc.urls, a),
                 raised |-> acc.raised \/ (result.t = "doc" /\ s.raised)])

Min(a, b) == IF a < b THEN a ELSE b
\* line 611: len(token_ids[:max_images])
Requested == Min(i_tokens, max_images)

\* the call is made; lines 606-616
IInit ==
    /\ WInit
    /\ PIdle
    /\ AIdle
    /\ UIdle
    /\ KIdle
    /\ NIdle
    /\ FIdle
    /\ SIdle
    /\ HIdle
    /\ LIdle
    /\ CIdle
    /\ DIdle
    /\ i_tokens \in 0 .. MaxImgTokens
    /\ max_images \in 0 .. MaxImgTokens
    /\ i_pc = IF Requested = 0 THEN "done" ELSE "batch"
    /\ i_index = 0
    /\ i_results = <<>>
    /\ i_picked = <<>>
    /\ image_urls = <<>>

\* lines 616-925: the gather of one batch returns and its results are
\* processed; an exception of the processing leaves the call
Gathered(results) ==
    LET acc == ProcessResults(results, [picked |-> i_picked, urls |-> image_urls, raised |-> FALSE])
    IN /\ i_results' = i_results \o results
       /\ i_picked' = acc.picked
       /\ image_urls' = acc.urls
       /\ i_index' = i_index + batch_size
       /\ i_pc' = IF acc.raised THEN "raised"
                  ELSE IF i_index + batch_size < Requested THEN "batch"
                  ELSE "done"
       /\ UNCHANGED <<i_tokens, max_images, wvars, pvars, i_rest>>

GatherBatch ==
    /\ i_pc = "batch"
    /\ \E results \in [1 .. Min(batch_size, Requested - i_index) -> GatherResults] :
          Gathered(results)

INext == GatherBatch

SpecImages == IInit /\ [][INext]_vars

(***************************************************************************)
(* SalesFetcher.get_all_image_urls_for_token (lines 1244-1371).            *)
(***************************************************************************)
\* a URL of the list: where it was found and its value
Found(source, v) == [source |-> source, v |-> v]

\* lines 1270-1284: extract_urls_from_dict
ExtractUrlsFromDict(d) ==
    IF d.t # "dict" THEN <<>>
    ELSE (IF Given(d.thumbnailUrl) THEN <<Found("thumbnailUrl", d.thumbnailUrl)>> ELSE <<>>)
           \o (IF Given(d.pngUrl) THEN <<Found("pngUrl", d.pngUrl)>> ELSE <<>>)
           \o (IF Given(d.cachedUrl) THEN <<Found("cachedUrl", d.cachedUrl)>> ELSE <<>>)
           \o (IF Given(d.originalUrl) THEN <<Found("originalUrl", d.originalUrl)>> ELSE <<>>)

\* lines 1290-1294, 1297-1301, 1305-1308, 1312-1315: an object is
\* searched, a string is taken with the name of its place
UrlsOf(o, place) ==
    IF o.t = "dict" THEN ExtractUrlsFromDict(o)
    ELSE IF o.t = "str" THEN <<Found(place, Leaf(o))>>
    ELSE <<>>

\* lines 1286-1315: media[0].gateway, media[0].raw, metadata.image, image
CollectUrls(doc) ==
    (IF doc.media.t = "none" THEN <<>>
     ELSE UrlsOf(doc.media.item.gateway, "media.gateway")
            \o UrlsOf(doc.media.item.raw, "media.raw"))
      \o UrlsOf(doc.meta_image, "metadata.image")
      \o UrlsOf(doc.image, "image")

\* line 1289: media_item.get on an entry that is no object
CollectRaises(doc) == doc.media.t # "none" /\ doc.media.item.t # "dict"

\* lines 1318-1323 and 1352-1357: the first occurrence of each value
RECURSIVE UniqueFound(_, _)
UniqueFound(s, seen) ==
    IF s = <<>> THEN <<>>
    ELSE IF Head(s).v \in seen THEN UniqueFound(Tail(s), seen)
    ELSE <<Head(s)>> \o UniqueFound(Tail(s), seen \cup {Head(s).v})

RECURSIVE UniqueUrls(_, _)
UniqueUrls(s, seen) ==
    IF s = <<>> THEN <<>>
    ELSE IF Head(s) \in seen THEN UniqueUrls(Tail(s), seen)
    ELSE <<Head(s)>> \o UniqueUrls(Tail(s), seen \cup {Head(s)})

\* lines 1326-1337: get_priority, on the lower-cased source
get_priority(source) ==
    CASE source = "thumbnailUrl" -> 0
      [] source = "pngUrl" -> 1
      [] source = "cachedUrl" -> 2
      [] source = "originalUrl" -> 3
      [] OTHER -> 4

\* line 1339: list.sort(key=get_priority), ascending and stable
SortByPriority(s) ==
    LET Of(p) == SelectSeq(s, LAMBDA f : get_priority(f.source) = p)
    IN Of(0) \o Of(1) \o Of(2) \o Of(3) \o Of(4)

\* lines 1345-1350: "ipfs://<hash>" and "ipfs/<a>/ipfs/<b>" become
\* "https://cloudflare-ipfs.com/ipfs/" followed by what is left when every
\* "ipfs/" is taken out
ConvertIpfs(v) ==
    IF ~IsStr(v) THEN v
    ELSE IF v.u.scheme = "ipfs" THEN Str([v.u EXCEPT !.scheme = "https", !.body = @ + 25])
    ELSE IF v.u.scheme = "ipfs_path" THEN Str([v.u EXCEPT !.scheme = "https", !.body = @ + 20])
    ELSE v

\* lines 1318-1357: the list built from a document
AllImageUrls(ipfs, doc) ==
    LET priority_order == SortByPriority(UniqueFound(CollectUrls(doc), {}))
        result == [i \in 1..Len(priority_order) |-> ConvertIpfs(priority_order[i].v)]
    IN UniqueUrls(ipfs \o result, {})

\* what get_ipfs_image_urls returns: a gateway URL made of an IPFS hash,
\* or nothing (also after its 5 s timeout, lines 1233-1242)
IpfsDirect == Url("ipfs_urls", "https", FALSE, FALSE, FALSE, 71, 0)
IpfsUrlLists == {<<>>, <<Str(IpfsDirect)>>}

\* the call is made
UInit ==
    /\ WInit
    /\ PIdle
    /\ AIdle
    /\ KIdle
    /\ NIdle
    /\ FIdle
    /\ IIdle
    /\ DIdle
    /\ CIdle
    /\ SIdle
    /\ HIdle
    /\ LIdle
    /\ u_pc = "call"
    /\ ipfs_urls = <<>>
    /\ u_metadata = [t |-> "empty"]
    /\ final_urls = <<>>

\* lines 1256-1371: the whole call, for what the two awaited calls gave
GetAllImageUrls(ipfs, metadata) ==
    /\ u_pc = "call"
    /\ ipfs_urls' = ipfs
    /\ u_metadata' = metadata
    /\ final_urls' = IF metadata.t # "doc" \/ CollectRaises(metadata.doc) THEN ipfs
                     ELSE AllImageUrls(ipfs, metadata.doc)
    /\ u_pc' = "done"
    /\ UNCHANGED <<wvars, pvars, u_rest>>

UNext == \E ipfs \in IpfsUrlLists, metadata \in GatherResults : GetAllImageUrls(ipfs, metadata)

\* the two resolvers of image URLs
SpecResolvers == (IInit \/ UInit) /\ [][INext \/ UNext]_vars

\* the two places where calls are gathered: the prices of a chunk's
\* candidates and the metadata of a batch of tokens
SpecGather == (KInit \/ IInit) /\ [][KNext \/ INext]_vars

(***************************************************************************)
(* format_price and get_sweep_category (bot.py lines 86-130).              *)
(***************************************************************************)
\* line 101: wei per ETH is 10^WeiDecimals; line 104: the places kept;
\* the decimal module's default context keeps DecimalPrec digits
WeiDecimals == 18
Places == 4
DecimalPrec == 28

\* token counts of 1 .. MaxTokenCount, amounts of up to MaxPadding zeros
\* behind a few leading digits
MaxTokenCount == 12
MaxPadding == 60

Zeros(n) == [k \in 1 .. n |-> 0]

\* the coefficient plus one
RECURSIVE Increment(_)
Increment(d) ==
    IF d = <<>> THEN <<1>>
    ELSE IF d[Len(d)] < 9 THEN [d EXCEPT ![Len(d)] = @ + 1]
    ELSE Increment(SubSeq(d, 1, Len(d) - 1)) \o <<0>>

\* the coefficient without its last k digits, rounded as ROUND_HALF_EVEN
\* does
RoundHalfEven(d, k) ==
    IF k <= 0 THEN d
    ELSE LET n == Len(d)
             kept == IF k >= n THEN <<>> ELSE SubSeq(d, 1, n - k)
             dropped == IF k > n THEN Zeros(k - n) \o d ELSE SubSeq(d, n - k + 1, n)
             more == \E j \in 2 .. k : dropped[j] # 0
             odd == kept # <<>> /\ kept[Len(kept)] % 2 = 1
         IN IF dropped[1] > 5 \/ (dropped[1] = 5 /\ (more \/ odd))
            THEN Increment(kept)
            ELSE kept

\* line 101: Decimal(price_wei) / Decimal(10**18), a coefficient of at most
\* DecimalPrec digits and the number of its digits that are fractional
Divide(price_wei) ==
    IF Len(price_wei) <= DecimalPrec
    THEN [coef |-> price_wei, scale |-> WeiDecimals]
    ELSE LET k == Len(price_wei) - DecimalPrec
             r == RoundHalfEven(price_wei, k)
         IN IF Len(r) > DecimalPrec
            THEN [coef |-> SubSeq(r, 1, DecimalPrec), scale |-> WeiDecimals - k - 1]
            ELSE [coef |-> r, scale |-> WeiDecimals - k]

\* line 104: round(eth_value, 4), the coefficient at Places fractional
\* digits; the caller raises when it has more than DecimalPrec digits
Quantize(x) ==
    IF x.scale <= Places
    THEN x.coef \o Zeros(Places - x.scale)
    ELSE RoundHalfEven(x.coef, x.scale - Places)

RECURSIVE RStripZeros(_)
RStripZeros(d) ==
    IF d # <<>> /\ d[Len(d)] = 0 THEN RStripZeros(SubSeq(d, 1, Len(d) - 1)) ELSE d

\* lines 97-110
format_price(price_wei, is_weth) ==
    IF price_wei = <<0>> THEN PriceString(<<0>>, <<>>, "ETH")
    ELSE LET q == Quantize(Divide(price_wei))
             n == Len(q)
             whole == IF n > Places THEN SubSeq(q, 1, n - Places) ELSE <<0>>
             frac == IF n >= Places THEN SubSeq(q, n - Places + 1, n)
                     ELSE Zeros(Places - n) \o q
         IN IF n > DecimalPrec THEN InvalidOperation
            ELSE PriceString(whole, RStripZeros(frac), IF is_weth THEN "WETH" ELSE "ETH")

\* lines 123-130; the colours are 0x3498db, 0x2ecc71, 0xe67e22, 0xe74c3c
GetSweepCategoryBelowFive(token_count) ==
    IF token_count = 1 THEN <<"Single NFT Sale", 3447003>>
    ELSE IF token_count < 5 THEN <<"Mini Sweep", 3066993>>
    ELSE IF token_count <= 10 THEN <<"Big Sweep", 15105570>>
    ELSE <<"Huge Sweep", 15158332>>
get_sweep_category(token_count) ==
    IF token_count = 1 THEN <<"Single NFT Sale", 3447003>>
    ELSE IF token_count <= 5 THEN <<"Mini Sweep", 3066993>>
    ELSE IF token_count <= 10 THEN <<"Big Sweep", 15105570>>
    ELSE <<"Huge Sweep", 15158332>>

\* amounts: a few leading digits followed by zeros, and three more
LeadingDigits ==
    {<<1>>, <<5>>, <<6, 2>>, <<1, 5>>, <<2, 5>>, <<9, 9, 9, 9, 5>>, <<9, 9, 9, 9, 4>>,
     <<1, 2, 3, 4, 5, 6>>}
Paddings == {k \in {0, 12, 13, 14, 18, 19, 23, 37, 41, 42, 60, 61} : k <= MaxPadding}
Amounts ==
    {d \o Zeros(k) : d \in LeadingDigits, k \in Paddings}
      \cup {<<0>>, <<5>> \o Zeros(12) \o <<1>>, [k \in 1 .. 42 |-> 9]}

\* SaleEvents are built with token_count = len(token_ids) of a non-empty
\* list (bot.py lines 356-369) or 1 (sales_fetcher.py line 1702)
FormatCalls ==
    {FormatCall(a, w) : a \in Amounts, w \in BOOLEAN}
      \cup {CategoryCall(c) : c \in 1 .. MaxTokenCount}

FInit ==
    /\ WInit
    /\ PIdle
    /\ AIdle
    /\ UIdle
    /\ KIdle
    /\ NIdle
    /\ SIdle
    /\ HIdle
    /\ LIdle
    /\ CIdle
    /\ DIdle
    /\ IIdle
    /\ f_pc = "call"
    /\ f_call \in FormatCalls
    /\ f_out = Category("", 0)

FormatPrice ==
    /\ f_pc = "call"
    /\ f_call.fn = "format_price"
    /\ f_out' = format_price(f_call.price_wei, f_call.is_weth)
    /\ f_pc' = "done"
    /\ UNCHANGED <<f_call, wvars, pvars, f_rest>>

GetSweepCategory ==
    /\ f_pc = "call"
    /\ f_call.fn = "get_sweep_category"
    /\ LET r == get_sweep_category(f_call.token_count)
       IN f_out' = Category(r[1], r[2])
    /\ f_pc' = "done"
    /\ UNCHANGED <<f_call, wvars, pvars, f_rest>>

FNext ==
    \/ FormatPrice
    \/ GetSweepCategory

SpecFormat == FInit /\ [][FNext]_vars

(***************************************************************************)
(* SalesFetcher._nft_api_call (sales_fetcher.py lines 111-165).            *)
(***************************************************************************)
\* line 111: the default, which every caller uses
max_retries == 3

\* what session.get and response.json can end in: a status with a body that
\* parses to a non-empty object, to {} or not at all, a timeout of the 30 s
\* ClientTimeout, or a connection error
Answer(kind, status, body) == [kind |-> kind, status |-> status, body |-> body]
Answers ==
    {Answer("status", s, b) : s \in {200}, b \in {"object", "empty", "unparsable"}}
      \cup {Answer("status", s, "unparsable") : s \in {400, 404, 429, 500, 502, 503}}
      \cup {Answer("timeout", 0, "none"), Answer("connection_error", 0, "none")}

\* lines 136, 154
wait_time(a) == (a + 1) * 2

\* lines 134-163: what one iteration of the loop does with the answer:
\* "retry" (sleep, continue), or the value returned
HandleAnswer(r, a) ==
    \* lines 161-163: a timeout or a connection error is an Exception
    IF r.kind # "status" THEN "{}"
    \* lines 134-142
    ELSE IF r.status = 500
    THEN IF a < max_retries - 1 THEN "retry" ELSE "{}"
    \* line 145 raises ClientResponseError for 400 and above: lines 147-160
    ELSE IF r.status >= 400
    THEN IF r.status < 500 THEN "{}"
         ELSE IF a < max_retries - 1 THEN "retry"
         ELSE "{}"
    \* line 146: the parsed body; a body that does not parse raises
    \* (ContentTypeError at lines 158-160, any other error at 161-163)
    ELSE IF r.body = "object" THEN "json"
    ELSE "{}"

NInit ==
    /\ WInit
    /\ PIdle
    /\ AIdle
    /\ UIdle
    /\ KIdle
    /\ SIdle
    /\ HIdle
    /\ LIdle
    /\ CIdle
    /\ DIdle
    /\ IIdle
    /\ FIdle
    /\ n_pc = "get"
    /\ attempt = 0
    /\ n_sent = <<>>
    /\ n_waits = <<>>
    /\ n_ret = "none"

\* lines 128-163: the request of this attempt is answered
NftAnswer(r) ==
    /\ n_pc = "get"
    /\ n_sent' = Append(n_sent, r)
    /\ LET h == HandleAnswer(r, attempt)
       IN IF h = "retry"
          THEN /\ n_waits' = Append(n_waits, wait_time(attempt))
               /\ n_pc' = "sleep"
               /\ n_ret' = n_ret
          ELSE /\ n_ret' = h
               /\ n_pc' = "done"
               /\ n_waits' = n_waits
    /\ UNCHANGED <<attempt, wvars, pvars, n_rest>>

\* lines 138-139, 156-157: the sleep is over and the loop goes on; the
\* retries are only taken for attempt < max_retries - 1
NftSleepOver ==
    /\ n_pc = "sleep"
    /\ attempt' = attempt + 1
    /\ n_pc' = "get"
    /\ UNCHANGED <<n_sent, n_waits, n_ret, wvars, pvars, n_rest>>

NNext ==
    \/ \E r \in Answers : NftAnswer(r)
    \/ NftSleepOver

SpecNftApi == NInit /\ [][NNext]_vars

Init == WInit /\ PIdle /\ XIdle

Next ==
    \/ \E h \in TxHashes, e \in EventShapes : HandleWebhook(h, e)
    \/ \E t \in Tasks : AppendEvent(t)
    \/ \E t \in Tasks : PopEvents(t)
    \/ \E t \in Tasks : GroupedStart(t)
    \/ \E t \in Tasks : PriceReturn(t)
    \/ \E t \in Tasks : MediaReturn(t)
    \/ \E t \in Tasks : ChannelAccepts(t)
    \/ \E t \in Tasks, http \in BOOLEAN : ChannelRejects(t, http)
    \/ \E t \in Tasks : SendReturn(t)
    \/ \E t \in Tasks : Timeout(t)
    \/ Tick

Spec == Init /\ [][Next]_vars

\* the event loop runs every task that is ready, its clock advances and
\* every sleep that is over ends
SpecLive ==
    /\ Spec
    /\ WF_vars(\E t \in Tasks : AppendEvent(t))
    /\ WF_vars(\E t \in Tasks : PopEvents(t))
    /\ WF_vars(Tick)

(***************************************************************************)
(* Properties of the webhook path.                                          *)
(***************************************************************************)
Elems(seq) == {seq[i] : i \in 1..Len(seq)}

MessagesOf(T) == {m \in channel_messages : Lower(m.sale.tx_hash) = T}

\* C1: for every transaction id, whatever the number, order and timing of
\* the webhook deliveries, the channel receives at most one notification.
C1_AtMostOneNotification ==
    \A T \in LowerHashes : Cardinality(MessagesOf(T)) <= 1

\* C2: once a transaction id is in processed_sales, a call of
\* process_webhook_events_grouped whose tx_hash equals it up to letter case
\* returns at once: no price resolution, no SaleEvent, no message.
C2_DedupSkipsRepeats ==
    [][\A t \in Tasks :
          (pc[t] = "popped" /\ pc'[t] # "popped" /\ Lower(tx[t]) \in processed_sales)
            => (pc'[t] = "done" /\ sale'[t] = NoSale
                /\ channel_messages' = channel_messages)]_vars

\* a call was skipped for a hash spelled differently from the one that was posted
C2_Witness ==
    \E t \in Tasks, u \in Tasks :
        /\ log[t] = "already_processed"
        /\ log[u] = "posted"
        /\ tx[t] # tx[u]

AllMintOrBurn(events) ==
    \A i \in 1..Len(events) :
        \/ ev[events[i]].fromAddress = ZERO_ADDRESS
        \/ ev[events[i]].toAddress = ZERO_ADDRESS

\* C7: a batch whose every event has the zero address as sender or as
\* recipient never gets to the price resolution, builds no SaleEvent and
\* sends no message.
C7_MintBurnOnlyYieldsNoSale ==
    \A t \in Tasks :
        (batch[t] # <<>> /\ AllMintOrBurn(batch[t]))
          => /\ pc[t] \in {"popped", "done"}
             /\ log[t] \in {"none", "already_processed", "no_token_ids"}
             /\ sale[t] = NoSale
             /\ \A m \in channel_messages : m.by # t

\* a batch of two events, a mint and a burn, ended with no token id
C7_Witness ==
    \E t \in Tasks :
        /\ log[t] = "no_token_ids"
        /\ Len(batch[t]) = 2
        /\ AllMintOrBurn(batch[t])
        /\ \E i \in 1..2 : ev[batch[t][i]].toAddress = ZERO_ADDRESS

\* C8: a transaction id is in processed_sales only if a notification of
\* that transaction reached the channel.
C8_ProcessedOnlyIfDelivered ==
    \A T \in processed_sales : MessagesOf(T) # {}

\* the tokens of the events of a batch that are no mint or burn
SaleEventsOf(events) ==
    {i \in 1..Len(events) :
        /\ ev[events[i]].fromAddress # ZERO_ADDRESS
        /\ ev[events[i]].toAddress # ZERO_ADDRESS}

\* C9: every event that entered the buffer less than GraceWindow seconds
\* after the first event of its transaction (hashes compared without case)
\* is in the batch that holds that first event; no event is in two batches;
\* and the SaleEvent of a batch counts the tokens of all its sale events.
C9_GraceWindowBatches ==
    /\ \A t \in Tasks, u \in Tasks :
          (in_window[t] /\ first[Lower(tx[t])] \in Elems(batch[u]))
            => t \in Elems(batch[u])
    /\ \A t \in Tasks, u \in Tasks, v \in Tasks :
          (t \in Elems(batch[u]) /\ t \in Elems(batch[v])) => u = v
    /\ \A u \in Tasks :
          sale[u] # NoSale
            => sale[u].token_count = Cardinality(SaleEventsOf(batch[u]))

\* two events of one transaction, spelled differently, made one SaleEvent
\* of two tokens
C9_Witness ==
    \E u \in Tasks :
        /\ Len(batch[u]) = 2
        /\ tx[batch[u][1]] # tx[batch[u][2]]
        /\ in_window[batch[u][2]]
        /\ sale[u] # NoSale
        /\ sale[u].token_count = 2

\* C10: process_webhook_events_grouped is never in progress in two tasks
\* at once for one transaction id.
C10_SerializedPerTransaction ==
    \A t \in Tasks, u \in Tasks :
        (t # u /\ InGrouped(t) /\ InGrouped(u)) => Lower(tx[t]) # Lower(tx[u])

(***************************************************************************)
(* Properties of the price resolver.                                        *)
(***************************************************************************)
Answered == ppc \notin {"idle", "get_transaction"}

\* the transaction was found and its value field is the hex spelling of n
NativeValue(n) == p_tx.ok /\ p_tx.value = <<"hex", n>>

\* C3: when the transaction's native value is not zero, the call returns
\* exactly that value with is_weth = false, whatever the seller and buyer
\* arguments, and without asking for the receipt or any transfer.
C3_NativeValueWins ==
    \A n \in 1..5 :
        (Answered /\ NativeValue(n))
          => /\ ppc = "done"
             /\ p_result = [amount |-> n, is_weth |-> FALSE, raised |-> FALSE]
             /\ Len(p_queries) = 1

\* a native value was returned to a call that named a seller and a buyer,
\* for a transaction without a block number
C3_Witness ==
    /\ ppc = "done"
    /\ NativeValue(5)
    /\ p_tx.blockNumber = Missing
    /\ p_args.seller # NoAddr
    /\ p_args.buyer # NoAddr
    /\ p_result.amount = 5

\* the transaction is mined, with no native value
ZeroValueMined ==
    /\ p_tx.ok
    /\ p_tx.value \in {Missing, Zero}
    /\ p_tx.blockNumber = <<"hex", 2000>>

\* the receipt's logs that are WETH Transfer events of a positive amount
WethTransferLogs ==
    {i \in 1..Len(p_receipt.logs) :
        /\ p_receipt.logs[i].address = WETH_CONTRACT
        /\ Len(p_receipt.logs[i].topics) >= 3
        /\ p_receipt.logs[i].topics[1] = TRANSFER_TOPIC
        /\ p_receipt.logs[i].data[1] = "hex"
        /\ p_receipt.logs[i].data[2] > 0}

LogTo(i) == p_receipt.logs[i].topics[3][2]
LogValue(i) == p_receipt.logs[i].data[2]

\* no log of the receipt makes the scan raise
LogsReadable ==
    \A i \in 1..Len(p_receipt.logs) : p_receipt.logs[i].topics[1] # "null"

ToSellerLogs == {i \in WethTransferLogs : p_args.seller # NoAddr /\ LogTo(i) = p_args.seller}

RECURSIVE SumOf(_)
SumOf(I) == IF I = {} THEN 0
            ELSE LET i == CHOOSE j \in I : TRUE IN LogValue(i) + SumOf(I \ {i})

\* C4 as stated: with zero native value and a WETH Transfer log to the
\* known seller in the receipt, the call returns the amount of such a log
\* with is_weth = true.
C4_SellerLogAmount ==
    (Answered /\ ZeroValueMined /\ p_receipt.ok /\ LogsReadable /\ ToSellerLogs # {})
      => /\ ppc = "done"
         /\ \E i \in ToSellerLogs :
               p_result = [amount |-> LogValue(i), is_weth |-> TRUE, raised |-> FALSE]

\* C4 as amended: the call returns the sum of the amounts of the WETH
\* Transfer logs to the seller (the log's amount when there is one such
\* log), with is_weth = true; WETH logs to other recipients add nothing.
C4_SellerLogSum ==
    (Answered /\ ZeroValueMined /\ p_receipt.ok /\ LogsReadable /\ ToSellerLogs # {})
      => /\ ppc = "done"
         /\ p_result = [amount |-> SumOf(ToSellerLogs), is_weth |-> TRUE, raised |-> FALSE]

\* one log to the seller and a larger one to another recipient: the
\* seller's amount is returned
C4_Witness ==
    /\ ppc = "done"
    /\ ZeroValueMined
    /\ Cardinality(ToSellerLogs) = 1
    /\ Cardinality(WethTransferLogs) = 2
    /\ \E i \in ToSellerLogs, j \in WethTransferLogs : LogValue(j) > LogValue(i)
    /\ p_result.amount = SumOf(ToSellerLogs)
    /\ p_result.is_weth

\* C5: with zero native value and positive WETH Transfer logs none of which
\* goes to the seller (or no seller known), the call returns the amount of
\* the largest of them with is_weth = true.
C5_LargestTransferFallback ==
    (Answered /\ ZeroValueMined /\ p_receipt.ok /\ LogsReadable
       /\ WethTransferLogs # {} /\ ToSellerLogs = {})
      => /\ ppc = "done"
         /\ p_result.is_weth
         /\ ~p_result.raised
         /\ \E i \in WethTransferLogs :
               /\ p_result.amount = LogValue(i)
               /\ \A j \in WethTransferLogs : LogValue(j) <= LogValue(i)

\* two WETH transfers to other recipients, the smaller one first, and a
\* known seller: the larger amount is returned
C5_Witness ==
    /\ ppc = "done"
    /\ ZeroValueMined
    /\ p_args.seller # NoAddr
    /\ ToSellerLogs = {}
    /\ WethTransferLogs = {1, 2}
    /\ LogValue(1) < LogValue(2)
    /\ p_result.amount = LogValue(2)

\* C6: the call never raises and never returns a negative amount; what it
\* returns is a positive amount or exactly (0, False).
C6_NeverRaisesNeverNegative ==
    /\ ~p_result.raised
    /\ p_result.amount >= 0
    /\ p_result.amount = 0 => ~p_result.is_weth
    /\ ppc # "done" => p_result = [amount |-> 0, is_weth |-> FALSE, raised |-> FALSE]

\* a value field that is no hex number made the call end with (0, False)
C6_Witness ==
    /\ ppc = "done"
    /\ p_tx.ok
    /\ p_tx.value = <<"badhex", 0>>
    /\ p_result = [amount |-> 0, is_weth |-> FALSE, raised |-> FALSE]

(***************************************************************************)
(* Claims about fetch_last_n_sales.                                        *)
(***************************************************************************)
Scanned == spc = "done" /\ s_result.path \in {"early", "final"}

SaleKey(s) == <<s.block_number, s.tx_index>>

\* C11: fetch_last_n_sales(1) returns exactly the one priced transfer that
\* is no mint or burn, when the scanned range lists exactly one and it lies
\* in the most recent chunk, however many other transfers surround it.
C11_SinglePricedSaleReturned ==
    (Scanned /\ s_n = 1 /\ Len(s_priced) = 1 /\ s_priced[1].chunk = 0)
      => s_result.sales = <<s_priced[1].sale>>

\* C12: every returned SaleEvent has a positive price and neither the zero
\* address as buyer nor as seller; with no priced transfer in the range, or
\* no current block, or an exception, the call returns the empty list.
C12_OnlyPricedSalesReturned ==
    /\ \A i \in 1..Len(s_result.sales) :
          /\ s_result.sales[i].total_price > 0
          /\ s_result.sales[i].buyer # ZERO_ADDRESS
          /\ s_result.sales[i].seller # ZERO_ADDRESS
    /\ (spc = "done" /\ s_priced = <<>>) => s_result.sales = <<>>
    /\ s_result.path \in {"no_block", "except"} => s_result.sales = <<>>
    /\ spc = "done" => s_result.path \in {"no_block", "except", "early", "final"}

\* all three chunks were scanned, none listed a priced candidate, and the
\* call returned the empty list
C12_Witness ==
    /\ spc = "done"
    /\ s_result = [path |-> "final", sales |-> <<>>]
    /\ chunk = max_chunks - 1
    /\ s_priced = <<>>

\* C13: the returned list is ordered most recent first by (block number,
\* transaction index), on the early-return and on the final-return path.
C13_MostRecentFirst ==
    \A i \in 1..(Len(s_result.sales) - 1) :
        ~KeyLess(SaleKey(s_result.sales[i]), SaleKey(s_result.sales[i + 1]))

\* the final return of two sales collected from two chunks, the first one
\* strictly more recent
C13_Witness ==
    /\ spc = "done"
    /\ s_result.path = "final"
    /\ chunk > 0
    /\ Len(s_result.sales) = 2
    /\ KeyLess(SaleKey(s_result.sales[2]), SaleKey(s_result.sales[1]))

\* C14: the returned list never holds two SaleEvents whose transaction ids
\* are equal up to letter case.
C14_NoDuplicateTransactions ==
    \A i, j \in 1..Len(s_result.sales) :
        Lower(s_result.sales[i].tx_hash) = Lower(s_result.sales[j].tx_hash) => i = j

\* two transfers of one transaction, spelled in different letter case, were
\* listed and priced, and the call asked for two sales returned one
C14_Witness ==
    /\ spc = "done"
    /\ s_n = 2
    /\ Len(s_priced) = 2
    /\ s_priced[1].sale.tx_hash # s_priced[2].sale.tx_hash
    /\ Lower(s_priced[1].sale.tx_hash) = Lower(s_priced[2].sale.tx_hash)
    /\ Len(s_result.sales) = 1


(***************************************************************************)
(* Claims about the SaleEvents the program builds.                         *)
(***************************************************************************)
\* token_ids is a sequence of as many ids as token_count says, at least one
TokenIdsWellFormed(s) ==
    /\ s.token_count >= 1
    /\ s.token_ids # None
    /\ Len(s.token_ids) = s.token_count

\* C15: every SaleEvent built by process_webhook_events_grouped or by
\* fetch_last_n_sales has a non-empty token_ids sequence and token_count
\* equal to its length, single-token sales included.
C15_TokenIdsNonEmpty ==
    /\ \A t \in Tasks : sale[t] # NoSale => TokenIdsWellFormed(sale[t])
    /\ \A i \in 1..Len(sales) : TokenIdsWellFormed(sales[i])
    /\ \A i \in 1..Len(s_result.sales) : TokenIdsWellFormed(s_result.sales[i])

\* C16: while process_webhook_events_grouped awaits the price of a batch,
\* the call it made names the transaction id and a seller and a buyer
\* taken from the batch's events.
C16_PriceCallNamesSellerAndBuyer ==
    \A t \in Tasks :
        pc[t] = "price"
          => /\ PriceCall(t).tx_hash = tx[t]
             /\ PriceCall(t).seller \in Sellers(ContractEvents(batch[t]))
             /\ PriceCall(t).buyer \in Buyers(ContractEvents(batch[t]))


(***************************************************************************)
(* Claims about handle_alchemy_webhook.                                    *)
(***************************************************************************)
\* C17: the handler answers 401 exactly when a secret is configured and the
\* signature header differs from it, and then neither parses the body nor
\* creates a task; every other request is answered 200.
C17_UnauthorizedOnlyOnSecretMismatch ==
    h_response # 0
      => /\ h_response = 401
              <=> (WEBHOOK_SECRET # "" /\ h_request.signature # WEBHOOK_SECRET)
         /\ h_response = 401 => (~h_parsed /\ h_scheduled = <<>>)
         /\ h_response # 401 => h_response = 200

\* a request without the header, whose payload holds a sale event of the
\* contract, was answered 401 and created no task
C17_Witness ==
    /\ WEBHOOK_SECRET = "secret"
    /\ h_request.signature = ""
    /\ h_request.body.kind = "object"
    /\ CreateTasks(EventsToProcess(h_request.body)) # <<>>
    /\ h_response = 401
    /\ h_scheduled = <<>>


(***************************************************************************)
(* Claims about the lastsale command.                                      *)
(***************************************************************************)
\* C18: the command ends having sent exactly one message, which is the
\* sale notification, "No recent sales found.", "Request timed out. Please
\* try again." or the not-ready notice; it never sends a text made from an
\* internal exception.
C18_PlainOutcomesOnly ==
    /\ \A i \in 1..Len(l_sent) : l_sent[i].kind # "error_text"
    /\ l_pc = "done"
         => /\ Len(l_sent) = 1
            /\ l_sent[1].kind \in {"sale", "no_sales", "timed_out", "not_ready"}


(***************************************************************************)
(* Claims about the metadata cache.                                        *)
(***************************************************************************)
\* C19: whatever the calls of get_nft_metadata and their interleaving, the
\* cache never holds more than MAX_METADATA_CACHE_SIZE entries.
C19_CacheWithinLimit == Len(metadata_cache) <= MAX_METADATA_CACHE_SIZE

\* the cache is full and a call's stored result is no longer in it: an
\* insertion over the limit evicted it
C19_Witness ==
    /\ Len(metadata_cache) = MAX_METADATA_CACHE_SIZE
    /\ \E c \in Calls :
          /\ m_pc[c] = "done"
          /\ m_result[c] = "metadata"
          /\ CacheKey(m_token[c]) \notin CachedKeys


(***************************************************************************)
(* Claims about download_image.                                            *)
(***************************************************************************)
\* a response the claim says must be rejected
Rejected(r) ==
    \/ r.status # 200
    \/ r.size > max_size
    \/ r.size < MinImageBytes
    \/ ContainsVideo(r.content_type)
    \/ StartsWithVideoMagic(r.magic)

ImageObjects(doc) == {doc.image, doc.media.item.gateway, doc.media.item.raw, doc.meta_image}

\* the document offers a still-image alternative: a thumbnail or a PNG
StillOffered(doc) ==
    \E o \in ImageObjects(doc) : o.t = "dict" /\ (IsStr(o.thumbnailUrl) \/ IsStr(o.pngUrl))

\* the names of the document's video sources: strings with a video marker,
\* and the cached and original URLs of an object or entry whose content
\* type is a video type
VideoSourceNames(doc) ==
    LET item == doc.media.item
        Sources(o, video) ==
            IF o.t = "dict"
            THEN {f.u.name : f \in {x \in {o.cachedUrl, o.originalUrl} :
                                      IsStr(x) /\ (x.u.video \/ video \/ o.contentType = "video")}}
            ELSE IF o.t = "str" /\ (o.u.video \/ video) THEN {o.u.name}
            ELSE {}
    IN Sources(doc.image, FALSE) \cup Sources(item.gateway, item.contentType = "video")
         \cup Sources(item.raw, item.contentType = "video") \cup Sources(doc.meta_image, FALSE)

\* C21: for a document that offers a still-image alternative, the URL that
\* fetch_nft_images returns for it is not the document's video source.
C21_NoVideoSourceWhenStillOffered ==
    \A k \in 1 .. Len(i_results) :
        (i_results[k].t = "doc" /\ StillOffered(i_results[k].doc))
          => i_picked[k].name \notin VideoSourceNames(i_results[k].doc)

\* C22: every URL of the list of fetch_nft_images starts with http:// or
\* https://, has no query string, has at most 2000 characters and is no
\* ipfs:// URL; the list has at most one URL per requested token and at
\* most max_images entries.
C22_ReturnedUrlsWellFormed ==
    /\ \A k \in 1 .. Len(image_urls) :
          /\ image_urls[k].scheme \in {"http", "https"}
          /\ image_urls[k].query = 0
          /\ UrlLen(image_urls[k]) <= 2000
    /\ Len(image_urls) <= i_tokens
    /\ Len(image_urls) <= max_images

\* the call returned one URL for each of several tokens, one of them
\* rewritten from ipfs:// with its query string removed, one truncated
C22_Witness ==
    /\ i_pc = "done"
    /\ Len(image_urls) = max_images
    /\ max_images >= 2
    /\ \E k \in 1 .. Len(i_results) :
          /\ i_results[k].doc.media.item.gateway = Val(Str(GatewayIpfs))
          /\ i_picked[k] = Url("gateway", "https", FALSE, FALSE, FALSE, 71, 0)
    /\ \E k \in 1 .. Len(i_results) :
          /\ i_results[k].doc.meta_image = Val(Str(MetaLong))
          /\ UrlLen(i_picked[k]) = 2000

\* C23: fetch_nft_images raises for no shape of the metadata.
C23_FetchNeverRaises == i_pc # "raised"


(***************************************************************************)
(* Claims about get_sweep_category and format_price.                       *)
(***************************************************************************)
\* C24: get_sweep_category maps a token count of 1 to the single-sale
\* category, 2 to 5 to mini sweep, 6 to 10 to big sweep and 11 or more to
\* huge sweep, and the four categories have four different colours.
C24_SweepCategoryByCount ==
    (f_pc = "done" /\ f_call.fn = "get_sweep_category")
      => LET c == f_call.token_count
         IN /\ ~f_out.raised
            /\ c = 1 => f_out.name = "Single NFT Sale"
            /\ c \in 2 .. 5 => f_out.name = "Mini Sweep"
            /\ c \in 6 .. 10 => f_out.name = "Big Sweep"
            /\ c >= 11 => f_out.name = "Huge Sweep"
            /\ \A o \in 1 .. MaxTokenCount :
                  (get_sweep_category(o)[1] = f_out.name)
                    <=> (get_sweep_category(o)[2] = f_out.color)

\* the category of a count on a boundary was returned
C24_Witness ==
    /\ f_pc = "done"
    /\ f_call.fn = "get_sweep_category"
    /\ f_call.token_count = 5
    /\ f_out.name = "Mini Sweep"

\* C25: format_price yields, for every non-negative amount, the amount in
\* ETH with at most 4 decimals, no trailing zero and no trailing point,
\* followed by WETH or ETH; 10^18 gives "1 ETH", 6200000000000000 gives
\* "0.0062 ETH" and 0 gives "0 ETH".
C25_FormatPriceYieldsPrice ==
    (f_pc = "done" /\ f_call.fn = "format_price")
      => /\ ~f_out.raised
         /\ Len(f_out.frac) <= 4
         /\ f_out.frac # <<>> => f_out.frac[Len(f_out.frac)] # 0
         /\ f_out.currency = IF f_call.is_weth /\ f_call.price_wei # <<0>> THEN "WETH" ELSE "ETH"
         /\ f_call.price_wei = <<1>> \o Zeros(18) => (f_out.whole = <<1>> /\ f_out.frac = <<>>)
         /\ f_call.price_wei = <<6, 2>> \o Zeros(14)
              => (f_out.whole = <<0>> /\ f_out.frac = <<0, 0, 6, 2>>)
         /\ f_call.price_wei = <<0>> => (f_out.whole = <<0>> /\ f_out.frac = <<>>)


(***************************************************************************)
(* Properties of the price resolver's strategies.                           *)
(***************************************************************************)
\* the native value of the transaction parses to a positive number
NativePositive ==
    p_tx.ok /\ Int16(GetOr(p_tx.value, Zero)).ok /\ Int16(GetOr(p_tx.value, Zero)).n > 0

\* the upstream queries of strategies 1, 1b and 2 that were issued
DirectQueried ==
    \E i \in 1..Len(p_queries) :
        p_queries[i].from_address # NoAddr /\ p_queries[i].to_address # NoAddr
BuyerQueried ==
    \E i \in 1..Len(p_queries) :
        p_queries[i].from_address # NoAddr /\ p_queries[i].to_address = NoAddr
RangeQueried ==
    \E i \in 1..Len(p_queries) :
        /\ p_queries[i].method = "alchemy_getAssetTransfers"
        /\ p_queries[i].from_address = NoAddr
        /\ p_queries[i].to_address = NoAddr

\* a transfer from the buyer to the seller of a positive amount
BuyerToSellerPositive(tr) ==
    /\ tr.wellformed
    /\ tr.from = p_args.buyer
    /\ tr.to = p_args.seller
    /\ Int16(GetOr(tr.value, Zero)).ok
    /\ Int16(GetOr(tr.value, Zero)).n > 0

\* C26: is_weth is true only if the amount is positive and did not come
\* from the native value, and an amount of 0 comes as exactly (0, False).
C26_ResultConsistent ==
    /\ p_result.is_weth => (p_result.amount > 0 /\ ~NativePositive)
    /\ p_result.amount <= 0 => p_result = Result(0, FALSE)

\* transfers of the block-range strategy that cancel out gave (0, False),
\* and a positive total was returned as WETH
C26_Witness ==
    /\ ppc = "done"
    /\ RangeQueried
    /\ \E i \in 1..Len(transfers_list) : Counted(transfers_list[i], p_args, BlockNum) < 0
    /\ \E i \in 1..Len(transfers_list) : Counted(transfers_list[i], p_args, BlockNum) > 0
    /\ p_result = Result(0, FALSE)

\* C27: evaluation stops at the first strategy that yields a positive
\* amount: after a positive native value, a positive log scan or a
\* positive transfer of the buyer-to-seller query, no query of a later
\* strategy is issued.
C27_StopsAtFirstPositive ==
    /\ (Answered /\ NativePositive) => Len(p_queries) = 1
    /\ (p_receipt.ok /\ Strategy0(p_receipt, p_args.seller) > 0)
         => (ppc = "done" /\ Len(p_queries) = 2)
    /\ (\E i \in 1..Len(direct_list) : BuyerToSellerPositive(direct_list[i]))
         => ~RangeQueried

\* C28: with zero native value, an empty log scan and both addresses
\* known, a positive transfer that the buyer-to-seller query returns from
\* within 100 blocks of the sale makes the call return a positive amount
\* with is_weth = true.
C28_DirectTransferAccepted ==
    (/\ ppc = "done"
     /\ \E i \in 1..Len(direct_list) :
           /\ BuyerToSellerPositive(direct_list[i])
           /\ BlockOf(direct_list[i]).ok
           /\ Abs(BlockOf(direct_list[i]).n - BlockNum) <= DirectWindow)
      => (p_result.amount > 0 /\ p_result.is_weth)

\* C29: the returned amount never adds together transfers of different
\* transactions.
C29_OneTransactionPerAmount ==
    (ppc = "done" /\ RangeQueried /\ p_result.is_weth)
      => \A i, j \in 1..Len(transfers_list) :
            (/\ Counted(transfers_list[i], p_args, BlockNum) > 0
             /\ Counted(transfers_list[j], p_args, BlockNum) > 0)
              => Lower(transfers_list[i].hash) = Lower(transfers_list[j].hash)


(***************************************************************************)
(* The 60-second bound of process_webhook_sale_with_timeout.               *)
(***************************************************************************)
\* task t logged the timeout and ended without an exception
TimedOut(t) == pc[t] = "done" /\ log[t] = "timeout"

\* the events of task t's batch are in no buffer and in no other batch
Abandoned(t) ==
    /\ batch[t] # <<>>
    /\ \A i \in 1..Len(batch[t]) :
          /\ \A k \in DOMAIN webhook_events :
                \A j \in 1..Len(webhook_events[k]) :
                    webhook_events[k][j] # batch[t][i]
          /\ \A u \in Tasks \ {t} :
                \A j \in 1..Len(batch[u]) : batch[u][j] # batch[t][i]

\* the step in which task t is cut off leaves every other task, the buffers
\* and the record of processed sales as they were
CutOffAlone(t) ==
    (InGrouped(t) /\ log'[t] = "timeout")
      => /\ pc'[t] = "done"
         /\ \A u \in Tasks \ {t} :
               /\ pc'[u] = pc[u]
               /\ log'[u] = log[u]
               /\ sale'[u] = sale[u]
               /\ batch'[u] = batch[u]
         /\ webhook_events' = webhook_events
         /\ processed_sales' = processed_sales

\* C30: a batch whose processing passes the 60-second bound is cancelled
\* and abandoned: the timeout is logged and the task ends, the batch's
\* events are in no buffer, no task processes them again, and the other
\* tasks are left as they were.
C30_TimedOutBatchAbandoned ==
    /\ [](\A t \in Tasks : TimedOut(t) => Abandoned(t))
    /\ [][\A t \in Tasks : CutOffAlone(t)]_vars

\* a task was cut off and a task of another transaction, which was being
\* processed at that time, went on to post its sale
C30_Witness ==
    \E t \in Tasks, u \in Tasks :
        /\ TimedOut(t)
        /\ Lower(tx[u]) # Lower(tx[t])
        /\ pc[u] = "done"
        /\ log[u] = "posted"
        /\ Lower(tx[u]) \in processed_sales


(***************************************************************************)
(* The retries of _nft_api_call.                                           *)
(***************************************************************************)
\* an HTTP 5xx response or a timeout
Transient(r) == r.kind = "timeout" \/ (r.kind = "status" /\ r.status >= 500)

ClientError(r) == r.kind = "status" /\ r.status >= 400 /\ r.status < 500

\* C31: _nft_api_call retries every transient failure (a 5xx response or a
\* timeout) until it succeeds or max_retries requests have been made,
\* waiting 2 s and then 4 s; it never issues more than max_retries
\* requests, never retries a 4xx response, and returns {} after the last
\* failed attempt.
C31_RetriesTransientFailures ==
    /\ Len(n_sent) <= max_retries
    /\ \A i \in 1..Len(n_waits) : n_waits[i] = 2 * i
    /\ \A i \in 1..Len(n_sent) :
          /\ ClientError(n_sent[i]) => i = Len(n_sent)
          /\ (Transient(n_sent[i]) /\ i < max_retries)
                => (n_pc # "done" \/ i < Len(n_sent))
    /\ (n_pc = "done" /\ n_sent[Len(n_sent)].body # "object") => n_ret = "{}"


(***************************************************************************)
(* The chunk queries of fetch_last_n_sales.                                *)
(***************************************************************************)
\* the query that is awaited when spc = "chunk": its block range
ChunkQueryBounded ==
    /\ chunk < max_chunks
    /\ 0 <= FromBlock(chunk)
    /\ FromBlock(chunk) < ToBlock(chunk)
    /\ ToBlock(chunk) - FromBlock(chunk) <= block_chunk_size
    /\ ToBlock(chunk) <= current_block
    /\ chunk > 0 => ToBlock(chunk) = FromBlock(chunk - 1)

\* C32: fetch_last_n_sales terminates after at most max_chunks chunk
\* queries, each over at most block_chunk_size blocks with non-negative
\* bounds, walking backward from the current block, and it issues no chunk
\* query once the accumulated de-duplicated sales number at least n.
C32_BoundedChunkWalk ==
    /\ [](spc = "chunk" => (ChunkQueryBounded /\ Len(sales) < s_n))
    /\ [][(spc = "chunk" /\ spc' = "chunk") => chunk' = chunk + 1]_vars
    /\ <>(spc = "done")

\* the call returned after its third chunk query
C32_Witness ==
    /\ spc = "done"
    /\ chunk = max_chunks - 1
    /\ s_result.path \in {"early", "final"}
    /\ Len(s_result.sales) >= 1


(***************************************************************************)
(* The cap on the transfers of a chunk.                                    *)
(***************************************************************************)
\* the transfers of the answer that are neither mint nor burn
NonMintBurn == SelectSeq(k_transfers, LAMBDA tr : ~AddressRaises(tr) /\ ~ScanIsMintOrBurn(tr))

TransferKey(tr) == <<HexOrZero(tr.blockNum), HexOrZero(tr.transactionIndex)>>

\* tr is among the max_transfers_per_chunk most recent of them
AmongMostRecent(tr) ==
    Cardinality({i \in 1..Len(NonMintBurn) : KeyLess(TransferKey(tr), TransferKey(NonMintBurn[i]))})
        < max_transfers_per_chunk

\* C33: mint and burn transfers are discarded before the cap, so a priced
\* transfer that is among the most recent max_transfers_per_chunk transfers
\* that are neither mint nor burn is price-checked.
C33_CapAfterMintBurnDiscard ==
    k_pc \in {"prices", "done"} =>
        \A i \in 1..Len(NonMintBurn) :
            (Priced(NonMintBurn[i].price) /\ AmongMostRecent(NonMintBurn[i]))
                => \E j \in 1..Len(transfer_candidates) :
                       transfer_candidates[j] = NonMintBurn[i]


(***************************************************************************)
(* The order of eviction of the metadata cache.                            *)
(***************************************************************************)
\* call c ends in this step with a hit or with an insertion
HitOrInsertion(c) ==
    /\ m_pc[c] # "done"
    /\ m_pc'[c] = "done"
    /\ m_result'[c] = "metadata"

\* the key that popitem(last=False) takes last: the most recently used
MostRecentlyUsed(cache) == cache[Len(cache)][1]

\* C34: eviction is in strict least-recently-used order: a hit and every
\* insertion, also one for a key a concurrent call already inserted, make
\* the key the most recently used, that is the last one to be evicted.
C34_HitAndInsertionRefresh ==
    [][\A c \in Calls :
          HitOrInsertion(c)
            => MostRecentlyUsed(metadata_cache') = CacheKey(m_token'[c])]_vars


(***************************************************************************)
(* When get_nft_metadata queries upstream.                                 *)
(***************************************************************************)
\* the fields of call c change in this step
CallActs(c) == <<m_pc[c], m_token[c], m_result[c], m_cached[c]>>' # <<m_pc[c], m_token[c], m_result[c], m_cached[c]>>

\* call c starts in this step with a token id that int() accepts
CallStarts(c) == m_pc[c] # "request" /\ CallActs(c) /\ m_token'[c][1] # "badhex"

\* a start queries upstream exactly when the key is absent, whatever the
\* spelling of the token id, and a hit returns the stored value
RequestOnlyWhenAbsent(c) ==
    CallStarts(c) =>
        IF CacheKey(m_token'[c]) \in CachedKeys
        THEN /\ m_pc'[c] = "done"
             /\ m_cached'[c]
             /\ m_result'[c] = CachedValue(CacheKey(m_token'[c]))
        ELSE /\ m_pc'[c] = "request"
             /\ ~m_cached'[c]

\* the upstream result of call c is back: it is stored if it is not empty
StoredUnlessEmpty(c) ==
    m_pc[c] = "request" /\ m_pc'[c] = "done" =>
        IF m_result'[c] = "empty"
        THEN metadata_cache' = metadata_cache
        ELSE \E i \in 1..Len(metadata_cache') :
                metadata_cache'[i] = <<CacheKey(m_token[c]), m_result'[c]>>

\* C39: get_nft_metadata queries upstream only when the key of the decimal
\* token id is absent at call time, so the hex and decimal spellings of a
\* token id share one entry; a non-empty result is stored and served from
\* the cache without a new request, an empty result is never stored.
C39_RequestsOnlyOnMiss ==
    /\ [][\A c \in Calls : RequestOnlyWhenAbsent(c) /\ StoredUnlessEmpty(c)]_vars
    /\ [](\A i, j \in 1..Len(metadata_cache) :
             /\ metadata_cache[i][2] # "empty"
             /\ metadata_cache[i][1] = metadata_cache[j][1] => i = j)

\* the decimal spelling was answered from upstream and stored, and the hex
\* spelling of the same token id was then served from the cache
C39_Witness ==
    \E c, d \in Calls :
        /\ m_pc[c] = "done" /\ m_token[c] = <<"dec", 1>> /\ ~m_cached[c]
        /\ m_result[c] = "metadata"
        /\ m_pc[d] = "done" /\ m_token[d] = <<"hex", 1>> /\ m_cached[d]
        /\ m_result[d] = "metadata"


(***************************************************************************)
(* The gathered calls: prices of candidates, metadata of tokens.           *)
(***************************************************************************)
\* the positions of the price results that did not fail
PricedPositions ==
    SelectSeq([i \in 1..Len(price_results) |-> i], LAMBDA i : Priced(price_results[i]))

\* the sales are those of the candidates whose own result did not fail,
\* each with the price of its own result
SalesPairedWithCandidates ==
    /\ Len(price_results) = Len(transfer_candidates)
    /\ Len(k_sales) = Len(PricedPositions)
    /\ \A j \in 1..Len(k_sales) :
          LET i == PricedPositions[j]
          IN /\ k_sales[j].tx_hash = transfer_candidates[i].hash
             /\ k_sales[j].seller = transfer_candidates[i].from
             /\ k_sales[j].buyer = transfer_candidates[i].to
             /\ k_sales[j].total_price = price_results[i].amount
             /\ k_sales[j].is_weth = price_results[i].is_weth

\* what each metadata result contributes depends on that result alone
UrlsFromOwnMetadata ==
    /\ Len(i_picked) = Len(i_results)
    /\ \A j \in 1..Len(i_results) :
          i_picked[j] = IF i_results[j].t = "doc"
                        THEN Appended(SelectImageUrl(i_results[j].doc).url)
                        ELSE NoUrl
    /\ image_urls = SelectSeq(i_picked, LAMBDA u : u # NoUrl)

\* C35: in the gathered price lookups of fetch_last_n_sales and the
\* gathered metadata calls of fetch_nft_images, a branch that raised or
\* came back empty counts as no price / no metadata for its own candidate
\* only; the other branches keep their results, each with its candidate.
C35_BranchFailureIsolated ==
    /\ k_pc = "done" => SalesPairedWithCandidates
    /\ i_pc \in {"batch", "done"} => UrlsFromOwnMetadata

\* a price lookup raised and the lookup after it made its sale
C35_Witness ==
    /\ k_pc = "done"
    /\ Len(price_results) = 2
    /\ price_results[1].raised
    /\ Len(k_sales) = 1
    /\ k_sales[1].tx_hash = transfer_candidates[2].hash

\* a metadata call raised and the call after it gave its image
C35_WitnessImages ==
    /\ i_pc = "done"
    /\ Len(i_results) >= 2
    /\ i_results[1].t = "exception"
    /\ i_results[2].t = "doc"
    /\ image_urls # <<>>
    /\ image_urls[1] = i_picked[2]


(***************************************************************************)
(* The place of the transformation service among the image URLs.           *)
(***************************************************************************)
\* the provider serves thumbnailUrl and pngUrl from the transformation
\* service (res.cloudinary.com)
OnCloudinary(u) == u.name \in {"thumbnailUrl", "pngUrl"}

\* every string of a document
StringsOf(doc) ==
    LET In(o) == IF o.t = "dict"
                 THEN {f.u : f \in {x \in {o.cachedUrl, o.originalUrl, o.pngUrl, o.thumbnailUrl} :
                                      IsStr(x)}}
                 ELSE IF o.t = "str" THEN {o.u} ELSE {}
    IN UNION {In(o) : o \in ImageObjects(doc)}

\* the names of the document's URLs that are no video, not on the
\* transformation service, and on the provider's CDN or content-addressed
PreferredNames(doc) ==
    {u.name : u \in {x \in StringsOf(doc) :
                       /\ ~OnCloudinary(x)
                       /\ x.name \notin VideoSourceNames(doc)
                       /\ (x.cdn \/ x.scheme \in {"ipfs", "ipfs_path"})}}

\* in the list of get_all_image_urls_for_token no URL of the
\* transformation service comes before one of the preferred URLs
PreferredRankedFirst ==
    \A i, j \in 1..Len(final_urls) :
        (/\ IsStr(final_urls[i]) /\ OnCloudinary(final_urls[i].u)
         /\ IsStr(final_urls[j])
         /\ final_urls[j].u.name \in PreferredNames(u_metadata.doc) \cup {IpfsDirect.name})
          => j < i

\* C36: a URL of the transformation service is used only when the
\* metadata offers nothing else: when the document has a non-video URL on
\* the provider's CDN or a content-addressed one, fetch_nft_images returns
\* it and get_all_image_urls_for_token lists it before every URL of the
\* transformation service.
C36_CloudinaryOnlyAsLastResort ==
    /\ i_pc \in {"batch", "done"} =>
          \A k \in 1..Len(i_results) :
              (i_results[k].t = "doc" /\ PreferredNames(i_results[k].doc) # {})
                => i_picked[k].name \in PreferredNames(i_results[k].doc)
    /\ (u_pc = "done" /\ u_metadata.t = "doc") => PreferredRankedFirst


(***************************************************************************)
(* The attachment of a notification.                                       *)
(***************************************************************************)
\* the metadata declares an original media source that is a video file
DeclaresVideo == a_metadata.t = "str" /\ a_metadata.video

EveryUrlFailed ==
    /\ Len(a_downloads) = urls_to_try
    /\ \A i \in 1..Len(a_downloads) : a_downloads[i] # "data"

\* C37: the candidate URLs are downloaded in order and the first download
\* that succeeds is used, with no later attempt; the video frame is
\* extracted exactly when every URL failed and the metadata declares an
\* original source that is a video file; when that path fails there is no
\* attachment, and no exception escapes.
C37_FrameExtractedWhenAllFailed ==
    /\ Len(a_downloads) <= urls_to_try
    /\ \A i \in 1..Len(a_downloads) : a_downloads[i] = "data" => i = Len(a_downloads)
    /\ (\E i \in 1..Len(a_downloads) : a_downloads[i] = "data") => a_file = "image"
    /\ a_pc = "done" =>
          /\ (a_frame # "not_called") <=> (EveryUrlFailed /\ DeclaresVideo)
          /\ (a_frame \in {"None", "raises"}) => a_file = "None"


(***************************************************************************)
(* The events of the scheduled tasks.                                      *)
(***************************************************************************)
\* the number of places of seq that hold x
RECURSIVE CountIn(_, _)
CountIn(x, seq) ==
    IF seq = <<>> THEN 0
    ELSE (IF Head(seq) = x THEN 1 ELSE 0) + CountIn(x, Tail(seq))

RECURSIVE SumOver(_, _)
SumOver(f, S) ==
    IF S = {} THEN 0
    ELSE LET s == CHOOSE s \in S : TRUE IN f[s] + SumOver(f, S \ {s})

\* in how many places of the batches handed to process_webhook_events_grouped
\* the event of task t is
TimesHanded(t) == SumOver([u \in Tasks |-> CountIn(t, batch[u])], Tasks)

\* in how many places of webhook_events it is
TimesBuffered(t) ==
    SumOver([k \in DOMAIN webhook_events |-> CountIn(t, webhook_events[k])],
            DOMAIN webhook_events)

\* the task of the event has run up to its sleep
EventBuffered(t) == pc[t] \notin {"none", "start"}

AllTasksFinished == Created # {} /\ \A t \in Created : pc[t] = "done"

\* C38: every event a task was scheduled for is in the end handed to
\* process_webhook_events_grouped, in one batch and in one place of it: from
\* the time it is buffered it is either in webhook_events or in one batch,
\* never in both and never in two; and when every scheduled task has
\* finished webhook_events holds no event.
C38_EveryEventHandedOnce ==
    /\ [](\A t \in Tasks :
             /\ TimesHanded(t) <= 1
             /\ EventBuffered(t) => TimesHanded(t) + TimesBuffered(t) = 1
             /\ ~EventBuffered(t) => TimesHanded(t) + TimesBuffered(t) = 0)
    /\ [](AllTasksFinished => \A k \in DOMAIN webhook_events : webhook_events[k] = <<>>)
    /\ \A t \in Tasks : (pc[t] # "none") ~> (TimesHanded(t) = 1)

\* two tasks of one transaction have finished: the first was handed both
\* events, the second popped nothing
C38_Witness ==
    /\ Created = Tasks
    /\ AllTasksFinished
    /\ \E u \in Tasks : Len(batch[u]) = MaxTasks /\ log[u] # "nothing_popped"
    /\ \E u \in Tasks : batch[u] = <<>> /\ log[u] = "nothing_popped"


====
